-------------------------- MODULE KernelTypeProofs --------------------------
(***************************************************************************)
(* Type correctness of the kernel, for any number of tasks, semaphores and *)
(* timers, any priorities and any number of priority bits.                 *)
(***************************************************************************)
EXTENDS Kernel, SequenceProofs

(***************************************************************************)
(* TypeOK alone is not inductive.  create_task accepts a priority that     *)
(* indexes outside ready_list; that the bit set in ready_bitmap is         *)
(* nevertheless one of its bits rests on such a task being in no list and  *)
(* behind no pointer.  That what set_timer returns to the pool is a timer  *)
(* rests on the place of the task in set_timer; that a receive reads a     *)
(* message, on the counters of the ring buffer.                            *)
(***************************************************************************)
Indexable == {t \in Tasks : Priority[t] \in Priorities}
Pointer == Indexable \cup {Idle, NoTask}
ArmedTimer == [id : TimerIds, task : Indexable, delay : Ticks]

ArmedEntry == [id : TimerIds \cup {NO_TIMER}, task : Tasks \cup {NoTask}]

ListTypeInv ==
  /\ task_state \in [Tasks \cup {Idle} -> TaskState]
  /\ ready_list \in [Priorities -> Seq(Indexable)]
  /\ ready_bitmap \in SUBSET Priorities
  /\ curr_task_ptr \in Pointer
  /\ highest_prio_task_ptr \in Pointer

TimerTypeInv ==
  /\ delay_list \in Seq(ArmedTimer)
  /\ timer_bitmap \in SUBSET TimerIds
  /\ armed \in [Tasks -> ArmedEntry]
  /\ \A t \in Tasks : pc[t] = "delay_block" => armed[t].id \in TimerIds

Datum == Messages \cup {NoMessage}

\* The counters of a ring buffer agree and its slots are there to be indexed.
RingOK(qu) ==
  /\ qu.slots \in [0..(qu.capacity - 1) -> Datum]
  /\ qu.count <= qu.capacity
  /\ qu.capacity > 0 => /\ qu.head < qu.capacity /\ qu.tail < qu.capacity
                        /\ \/ qu.tail = qu.head + qu.count
                           \/ qu.tail + qu.capacity = qu.head + qu.count

\* Semaphores, queues and who is blocked in them.
CommTypeInv ==
  /\ sem_list \in SUBSET Semaphores
  /\ sem_val \in [Semaphores -> 0..SEM_MAX]
  /\ blocked_list \in [BlockedLists -> Seq(Indexable)]
  /\ queue \in [Queues -> {qu \in Queue : RingOK(qu)}]
  /\ buffer \in [Tasks -> Datum]
  /\ request \in [Tasks -> [queue : Queues \cup {NoQueue}, ms : Timeouts \cup {0}]]

TypeInv ==
  /\ PlatformTypeOK
  /\ ListTypeInv
  /\ SchedTypeOK
  /\ picked \in [Tasks -> Pointer]
  /\ TimerTypeInv
  /\ CommTypeInv

LEMMA TypeInvImpliesTypeOK == TypeInv => TypeOK
<1> SUFFICES ASSUME TypeInv PROVE TypeOK
  OBVIOUS
<1> USE TasksAssumption DEF TypeInv
<1>1. Indexable \subseteq Tasks /\ Pointer \subseteq TaskPtr /\ ArmedTimer \subseteq Timer
  BY DEF Indexable, Pointer, TaskPtr, ArmedTimer, Timer
<1>2. ListTypeOK
  <2>1. /\ \A p \in Priorities : ready_list[p] \in Seq(Tasks)
        /\ \A l \in BlockedLists : blocked_list[l] \in Seq(Tasks)
    BY <1>1, SeqMonotonic DEF ListTypeInv, CommTypeInv
  <2> QED
    BY <1>1, <2>1 DEF ListTypeInv, CommTypeInv, ListTypeOK
<1>3. TimerTypeOK
  BY <1>1, SeqMonotonic DEF TimerTypeInv, TimerTypeOK, ArmedEntry
<1>4. SemTypeOK /\ QueueTypeOK
  BY DEF CommTypeInv, SemTypeOK, QueueTypeOK, Datum
<1> QED
  BY <1>2, <1>3, <1>4 DEF TypeOK

-----------------------------------------------------------------------------
(* Lists                                                                   *)

LEMMA HeadOfType ==
  ASSUME NEW E, NEW s \in Seq(E)
  PROVE  HeadOf(s) \in E \cup {NoTask}
BY HeadTailProperties DEF HeadOf

LEMMA DecrementedType ==
  ASSUME NEW d \in Ticks
  PROVE  Decremented(d) \in Ticks
BY TimersAssumption DEF Ticks, Decremented

\* Putting a task that has an entry in ready_list behind the others.
LEMMA InsertReadyType ==
  ASSUME ListTypeInv, NEW t \in Indexable, insert_into_ready_list(t)
  PROVE  /\ ready_list' \in [Priorities -> Seq(Indexable)]
         /\ ready_bitmap' \in SUBSET Priorities
<1>1. Priority[t] \in Priorities
  BY DEF Indexable
<1>2. Append(ready_list[Priority[t]], t) \in Seq(Indexable)
  BY <1>1, AppendProperties DEF ListTypeInv
<1> QED
  BY <1>1, <1>2 DEF ListTypeInv, insert_into_ready_list

\* The current task leaves its ready list.
LEMMA RemoveReadyType ==
  ASSUME ListTypeInv, NEW t \in Indexable, Removable(t), remove_from_ready_list(t)
  PROVE  /\ ready_list' \in [Priorities -> Seq(Indexable)]
         /\ ready_bitmap' \in SUBSET Priorities
<1>1. Priority[t] \in Priorities
  BY DEF Indexable
<1>2. ready_list[Priority[t]] # <<>>
  BY TasksAssumption DEF Removable, HeadOf, Indexable
<1>3. Tail(ready_list[Priority[t]]) \in Seq(Indexable)
  BY <1>1, <1>2, HeadTailProperties DEF ListTypeInv
<1> QED
  BY <1>1, <1>3 DEF ListTypeInv, remove_from_ready_list

LEMMA NextTaskType ==
  ASSUME ready_list' \in [Priorities -> Seq(Indexable)],
         NEW t \in TaskPtr, IsNextTask(t, ready_list', ready_bitmap')
  PROVE  t \in Pointer
<1>1. ASSUME NEW p \in Priorities, t = HeadOf(ready_list'[p])
      PROVE  t \in Pointer
  BY <1>1, HeadOfType DEF Pointer
<1> QED
  BY <1>1 DEF IsNextTask, Pointer

\* A schedule() that nothing interrupts.
LEMMA ScheduleNowType ==
  ASSUME PlatformTypeOK, NEW states \in [Tasks \cup {Idle} -> TaskState],
         NEW curr \in Pointer,
         ready_list' \in [Priorities -> Seq(Indexable)],
         ScheduleNow(states, curr)
  PROVE  /\ task_state' \in [Tasks \cup {Idle} -> TaskState]
         /\ highest_prio_task_ptr' \in Pointer
         /\ pendsv' \in BOOLEAN
<1> PICK t \in TaskPtr :
      /\ IsNextTask(t, ready_list', ready_bitmap')
      /\ highest_prio_task_ptr' = t
      /\ IF ready_to_running(states, curr, t, t)
         THEN /\ task_state' = [PreemptCurrent(states, curr) EXCEPT ![t] = "RUNNING"]
              /\ context_switch
         ELSE task_state' = states /\ UNCHANGED pendsv
  BY DEF ScheduleNow
<1>1. PreemptCurrent(states, curr) \in [Tasks \cup {Idle} -> TaskState]
  BY DEF PreemptCurrent, TaskState
<1>2. task_state' \in [Tasks \cup {Idle} -> TaskState]
  BY <1>1 DEF TaskState
<1>3. pendsv' \in BOOLEAN
  BY DEF PlatformTypeOK, context_switch
<1> QED
  BY <1>2, <1>3, NextTaskType

LEMMA InsertTimerType ==
  ASSUME delay_list \in Seq(ArmedTimer), NEW timer \in ArmedTimer,
         NEW k \in 1..(Len(delay_list) + 1),
         k <= Len(delay_list) => timer.delay < delay_list[k].delay,
         InsertTimer(timer, k)
  PROVE  delay_list' \in Seq(ArmedTimer)
<1> DEFINE rest == IF k <= Len(delay_list)
                     THEN [delay_list EXCEPT ![k].delay = @ - timer.delay]
                     ELSE delay_list
<1>1. rest \in Seq(ArmedTimer) /\ Len(rest) = Len(delay_list)
  <2>1. CASE k <= Len(delay_list)
    <3>1. delay_list[k] \in ArmedTimer
      BY <2>1, ElementOfSeq
    <3>2. delay_list[k].delay - timer.delay \in Ticks
      BY <2>1, <3>1, TimersAssumption DEF ArmedTimer, Ticks
    <3>3. [delay_list[k] EXCEPT !.delay = @ - timer.delay] \in ArmedTimer
      BY <3>1, <3>2 DEF ArmedTimer
    <3>4. rest = [delay_list EXCEPT ![k] = [delay_list[k] EXCEPT !.delay = @ - timer.delay]]
      BY <2>1
    <3> HIDE DEF rest
    <3> QED
      BY <2>1, <3>3, <3>4, ExceptSeq
  <2>2. CASE ~(k <= Len(delay_list))
    BY <2>2
  <2> QED
    BY <2>1, <2>2
<1>2. delay_list' = InsertAt(rest, k, timer)
  BY DEF InsertTimer
<1> HIDE DEF rest
<1> QED
  BY <1>1, <1>2, InsertAtType

-----------------------------------------------------------------------------
(* Ring buffers                                                            *)

LEMMA NextSlot ==
  ASSUME NEW c \in Nat \ {0}, NEW i \in 0..(c - 1)
  PROVE  (i + 1) % c = IF i + 1 = c THEN 0 ELSE i + 1
<1>1. CASE i + 1 = c
  BY <1>1
<1>2. CASE i + 1 < c
  BY <1>2
<1> QED
  BY <1>1, <1>2

LEMMA QueueArguments ==
  /\ QueueLengths \cup {0} \subseteq Nat
  /\ \A ms \in Timeouts \cup {0} : ms \in Int /\ ms < UINT32_MODULUS
<1>1. QueueLengths \subseteq Nat /\ Timeouts \subseteq Int /\ UINT32_MODULUS \in Nat \ {0}
  BY QueuesAssumption, TimersAssumption, Zenon
<1>2. \A ms \in Timeouts : ms < UINT32_MODULUS
  BY QueuesAssumption, Zenon
<1> QED
  BY <1>1, <1>2

LEMMA RingNumbers ==
  ASSUME NEW qu \in Queue, RingOK(qu)
  PROVE  /\ qu.capacity \in Nat /\ qu.room \in Nat /\ qu.count \in 0..qu.capacity
         /\ qu.capacity > 0 => /\ qu.tail \in 0..(qu.capacity - 1)
                               /\ qu.head \in 0..(qu.capacity - 1)
         /\ qu.capacity \in QueueLengths \cup {0}
         /\ qu.slots \in Slots
<1>1. /\ qu.capacity \in QueueLengths \cup {0} /\ qu.room \in Nat
      /\ qu.head \in Nat /\ qu.tail \in Nat /\ qu.count \in Nat /\ qu.slots \in Slots
  BY DEF Queue
<1>2. qu.capacity \in Nat
  BY <1>1, QueueArguments
<1> QED
  BY <1>1, <1>2 DEF RingOK

LEMMA SlotsType ==
  ASSUME NEW length \in QueueLengths \cup {0}, NEW f \in [0..(length - 1) -> Datum]
  PROVE  f \in Slots
BY DEF Slots, Datum

LEMMA EmptyQueueType ==
  ASSUME NEW length \in QueueLengths \cup {0}, NEW room \in Nat
  PROVE  EmptyQueue(length, room) \in {qu \in Queue : RingOK(qu)}
<1>1. [i \in 0..(length - 1) |-> NoMessage] \in [0..(length - 1) -> Datum]
  BY DEF Datum
<1>2. length \in Nat
  BY QueuesAssumption
<1> QED
  BY <1>1, <1>2, SlotsType DEF EmptyQueue, Queue, RingOK

\* The arithmetic of a push, and of a pop.
LEMMA PushedNumbers ==
  ASSUME NEW c \in Nat \ {0}, NEW head \in 0..(c - 1), NEW tail \in 0..(c - 1),
         NEW count \in 0..(c - 1), tail = head + count \/ tail + c = head + count,
         NEW next, next = IF tail + 1 = c THEN 0 ELSE tail + 1
  PROVE  /\ count + 1 <= c /\ next < c
         /\ next = head + (count + 1) \/ next + c = head + (count + 1)
<1>1. CASE tail + 1 = c
  BY <1>1
<1>2. CASE tail + 1 # c
  BY <1>2
<1> QED
  BY <1>1, <1>2

LEMMA PoppedNumbers ==
  ASSUME NEW c \in Nat \ {0}, NEW head \in 0..(c - 1), NEW tail \in 0..(c - 1),
         NEW count \in 1..c, tail = head + count \/ tail + c = head + count,
         NEW next, next = IF head + 1 = c THEN 0 ELSE head + 1
  PROVE  /\ count - 1 <= c /\ next < c
         /\ tail = next + (count - 1) \/ tail + c = next + (count - 1)
<1>1. CASE head + 1 = c
  BY <1>1
<1>2. CASE head + 1 # c
  BY <1>2
<1> QED
  BY <1>1, <1>2

LEMMA PushedFields ==
  ASSUME NEW qu \in Queue, NEW d
  PROVE  /\ Pushed(qu, d).capacity = qu.capacity /\ Pushed(qu, d).room = qu.room
         /\ Pushed(qu, d).head = qu.head /\ Pushed(qu, d).count = qu.count + 1
         /\ Pushed(qu, d).tail = (qu.tail + 1) % qu.capacity
         /\ Pushed(qu, d).slots = [qu.slots EXCEPT ![qu.tail] = d]
BY DEF Pushed, Queue

LEMMA PushedType ==
  ASSUME NEW qu \in Queue, RingOK(qu), qu.count # qu.capacity, NEW d \in Datum
  PROVE  /\ Pushed(qu, d) \in Queue /\ RingOK(Pushed(qu, d))
         /\ qu.tail \in 0..(qu.capacity - 1)
<1>1. /\ qu.capacity \in Nat \ {0} /\ qu.tail \in 0..(qu.capacity - 1)
      /\ qu.head \in 0..(qu.capacity - 1) /\ qu.count \in 0..(qu.capacity - 1)
  BY RingNumbers
<1>2. (qu.tail + 1) % qu.capacity =
        IF qu.tail + 1 = qu.capacity THEN 0 ELSE qu.tail + 1
  BY <1>1, NextSlot
<1>3. [qu.slots EXCEPT ![qu.tail] = d] \in [0..(qu.capacity - 1) -> Datum]
  BY DEF RingOK
<1>4. [qu.slots EXCEPT ![qu.tail] = d] \in Slots
  BY <1>3, SlotsType DEF Queue
<1>5. (qu.tail + 1) % qu.capacity \in Nat /\ qu.count + 1 \in Nat
  BY <1>1, <1>2
<1>6. Pushed(qu, d) \in Queue
  BY <1>4, <1>5 DEF Pushed, Queue
<1>7. \/ qu.tail = qu.head + qu.count
      \/ qu.tail + qu.capacity = qu.head + qu.count
  BY <1>1 DEF RingOK
<1> DEFINE new == Pushed(qu, d)
<1>8. /\ new.capacity = qu.capacity /\ new.head = qu.head /\ new.count = qu.count + 1
      /\ new.tail = IF qu.tail + 1 = qu.capacity THEN 0 ELSE qu.tail + 1
      /\ new.slots \in [0..(new.capacity - 1) -> Datum]
  BY <1>2, <1>3, PushedFields
<1> HIDE DEF new
<1>9. RingOK(new)
  <2>0. \A next : next = (IF qu.tail + 1 = qu.capacity THEN 0 ELSE qu.tail + 1) =>
          /\ qu.count + 1 <= qu.capacity /\ next < qu.capacity
          /\ next = qu.head + (qu.count + 1) \/ next + qu.capacity = qu.head + (qu.count + 1)
    BY <1>1, <1>7, PushedNumbers
  <2>1. /\ new.count <= new.capacity /\ new.head < new.capacity /\ new.tail < new.capacity
        /\ \/ new.tail = new.head + new.count
           \/ new.tail + new.capacity = new.head + new.count
    BY <1>1, <1>8, <2>0
  <2> QED
    BY <1>8, <2>1 DEF RingOK
<1> QED
  BY <1>1, <1>6, <1>9 DEF new

LEMMA PoppedFields ==
  ASSUME NEW qu \in Queue
  PROVE  /\ Popped(qu).capacity = qu.capacity /\ Popped(qu).room = qu.room
         /\ Popped(qu).head = (qu.head + 1) % qu.capacity
         /\ Popped(qu).count = qu.count - 1
         /\ Popped(qu).tail = qu.tail /\ Popped(qu).slots = qu.slots
BY DEF Popped, Queue

LEMMA PoppedType ==
  ASSUME NEW qu \in Queue, RingOK(qu), qu.count # 0
  PROVE  /\ Popped(qu) \in Queue /\ RingOK(Popped(qu))
         /\ qu.head \in 0..(qu.capacity - 1)
         /\ qu.slots[qu.head] \in Datum
<1>1. /\ qu.capacity \in Nat \ {0} /\ qu.tail \in 0..(qu.capacity - 1)
      /\ qu.head \in 0..(qu.capacity - 1) /\ qu.count \in 1..qu.capacity
  BY RingNumbers
<1>2. (qu.head + 1) % qu.capacity =
        IF qu.head + 1 = qu.capacity THEN 0 ELSE qu.head + 1
  BY <1>1, NextSlot
<1>3. (qu.head + 1) % qu.capacity \in Nat /\ qu.count - 1 \in Nat
  BY <1>1, <1>2
<1>4. Popped(qu) \in Queue
  BY <1>3 DEF Popped, Queue
<1>5. \/ qu.tail = qu.head + qu.count
      \/ qu.tail + qu.capacity = qu.head + qu.count
  BY <1>1 DEF RingOK
<1>6. qu.slots \in [0..(qu.capacity - 1) -> Datum]
  BY DEF RingOK
<1> DEFINE new == Popped(qu)
<1>7. /\ new.capacity = qu.capacity /\ new.tail = qu.tail /\ new.count = qu.count - 1
      /\ new.head = IF qu.head + 1 = qu.capacity THEN 0 ELSE qu.head + 1
      /\ new.slots \in [0..(new.capacity - 1) -> Datum]
  BY <1>2, <1>6, PoppedFields
<1> HIDE DEF new
<1>8. RingOK(new)
  <2>0. \A next : next = (IF qu.head + 1 = qu.capacity THEN 0 ELSE qu.head + 1) =>
          /\ qu.count - 1 <= qu.capacity /\ next < qu.capacity
          /\ qu.tail = next + (qu.count - 1) \/ qu.tail + qu.capacity = next + (qu.count - 1)
    BY <1>1, <1>5, PoppedNumbers
  <2>1. /\ new.count <= new.capacity /\ new.head < new.capacity /\ new.tail < new.capacity
        /\ \/ new.tail = new.head + new.count
           \/ new.tail + new.capacity = new.head + new.count
    BY <1>1, <1>7, <2>0
  <2> QED
    BY <1>7, <2>1 DEF RingOK
<1> QED
  BY <1>1, <1>4, <1>6, <1>8 DEF new

-----------------------------------------------------------------------------
(* Steps                                                                   *)

LEMMA TypeInit == Init => TypeInv
<1> SUFFICES ASSUME Init PROVE TypeInv
  OBVIOUS
<1> USE TasksAssumption, TimersAssumption, SemaphoresAssumption DEF Init
<1>1. PlatformTypeOK
  BY DEF PlatformInit, PlatformTypeOK
<1>2. ListTypeInv
  BY EmptySeq DEF ListInit, ListTypeInv, TaskState, Pointer
<1>3. SchedTypeOK
  BY DEF SchedInit, SchedTypeOK, PC, ReturnPC, IDLE_IDX, TaskPtr
<1>4. picked \in [Tasks -> Pointer]
  BY DEF SchedInit, Pointer
<1>5. TimerTypeInv
  BY EmptySeq DEF TimerInit, SchedInit, TimerTypeInv, ArmedEntry, NotArmed
<1>6. CommTypeInv
  <2>1. queue \in [Queues -> {qu \in Queue : RingOK(qu)}]
    BY EmptyQueueType DEF QueueInit
  <2> QED
    BY <2>1, EmptySeq, QueuesAssumption
    DEF ListInit, SemInit, QueueInit, NoCall, CommTypeInv, Datum
<1> QED
  BY <1>1, <1>2, <1>3, <1>4, <1>5, <1>6 DEF TypeInv

\* The calls in progress keep their timers; the task field may change.
ArmedKept ==
  /\ armed' \in [Tasks -> ArmedEntry]
  /\ \A u \in Tasks : armed'[u].id = armed[u].id

LEMMA ReassignedKept ==
  ASSUME TypeInv, NEW id, NEW task \in Tasks \cup {NoTask}, armed' = Reassigned(id, task)
  PROVE  ArmedKept
BY DEF TypeInv, TimerTypeInv, ArmedKept, Reassigned, ArmedEntry

LEMMA UnchangedKept ==
  ASSUME TypeInv, UNCHANGED armed
  PROVE  ArmedKept
BY DEF TypeInv, TimerTypeInv, ArmedKept

\* The pc of a task moves to a place outside set_timer.
LEMMA GotoType ==
  ASSUME TypeInv, NEW t \in Tasks, NEW label \in PC \ {"delay_block"}, Goto(t, label),
         UNCHANGED timerVars
  PROVE  pc' \in [Tasks -> PC] /\ TimerTypeInv'
BY DEF TypeInv, SchedTypeOK, TimerTypeInv, Goto, timerVars

LEMMA ReturnType ==
  ASSUME TypeInv, NEW t \in Tasks, ReturnFromSchedule(t),
         UNCHANGED <<task_list, boot, wild, timerVars>>
  PROVE  SchedTypeOK' /\ picked' \in [Tasks -> Pointer] /\ TimerTypeInv'
<1>1. ret[t] \in PC \ {"delay_block"}
  BY DEF TypeInv, SchedTypeOK, PC, QueuePC, ReturnPC
<1>2. pc' \in [Tasks -> PC] /\ TimerTypeInv'
  BY <1>1, GotoType DEF ReturnFromSchedule, Goto
<1>3. /\ idx' \in [Tasks -> Priorities \cup {IDLE_IDX}]
      /\ picked' \in [Tasks -> Pointer]
      /\ picked' \in [Tasks -> TaskPtr]
      /\ ret' \in [Tasks -> ReturnPC]
  BY DEF TypeInv, SchedTypeOK, ReturnPC, ReturnFromSchedule, Pointer, TaskPtr
<1>4. UNCHANGED <<task_list, boot, wild>>
  OBVIOUS
<1> QED
  BY <1>2, <1>3, <1>4 DEF TypeInv, SchedTypeOK

LEMMA ScheduleType ==
  ASSUME TypeInv, NEW t \in Tasks, Schedule(t), UNCHANGED <<blocked_list, timerVars, semVars, queueVars>>
  PROVE  TypeInv'
<1> USE DEF TypeInv, platformVars, listVars
<1>0. /\ CommTypeInv'
      /\ UNCHANGED <<basepri, ready_list, ready_bitmap, curr_task_ptr, task_list, boot, wild>>
      /\ UNCHANGED <<timerVars, queueVars>>
  BY DEF CommTypeInv, semVars, queueVars, Schedule, SchedIndex, SchedLoad, SchedStore, SchedCheck,
         SchedCurrent, SchedMatch, SchedPreempt, SchedCommit, SchedSwitch
<1>pc. ASSUME NEW label \in PC \ {"delay_block"}, Goto(t, label),
              UNCHANGED ret, idx' \in [Tasks -> Priorities \cup {IDLE_IDX}],
              picked' \in [Tasks -> Pointer]
       PROVE  SchedTypeOK' /\ TimerTypeInv'
  <2>1. pc' \in [Tasks -> PC] /\ TimerTypeInv'
    BY <1>pc, <1>0, GotoType
  <2>2. picked' \in [Tasks -> TaskPtr]
    BY <1>pc DEF Pointer, TaskPtr, Indexable
  <2> QED
    BY <1>pc, <1>0, <2>1, <2>2 DEF SchedTypeOK
<1>1. CASE SchedIndex(t)
  <2>1. Goto(t, "sched_load") /\ UNCHANGED <<ret, picked, platformVars, listVars>>
    BY <1>1 DEF SchedIndex
  <2>2. idx' \in [Tasks -> Priorities \cup {IDLE_IDX}]
    BY <1>1 DEF SchedIndex, SchedTypeOK
  <2>3. SchedTypeOK' /\ TimerTypeInv'
    BY <1>pc, <2>1, <2>2 DEF PC, SchedPC
  <2> QED
    BY <1>0, <2>1, <2>3 DEF PlatformTypeOK, ListTypeInv
<1>2. CASE SchedLoad(t)
  <2>1. Goto(t, "sched_store") /\ UNCHANGED <<ret, idx, platformVars, listVars>>
    BY <1>2 DEF SchedLoad
  <2>2. picked' \in [Tasks -> Pointer]
    <3>1. (IF idx[t] = IDLE_IDX THEN Idle ELSE HeadOf(ready_list[idx[t]])) \in Pointer
      BY HeadOfType DEF SchedTypeOK, ListTypeInv, Pointer
    <3> QED
      BY <1>2, <3>1 DEF SchedLoad
  <2>3. SchedTypeOK' /\ TimerTypeInv'
    BY <1>pc, <2>1, <2>2 DEF PC, SchedPC, SchedTypeOK
  <2> QED
    BY <1>0, <2>1, <2>2, <2>3 DEF PlatformTypeOK, ListTypeInv
<1>3. CASE SchedStore(t)
  <2>1. /\ Goto(t, "sched_check")
        /\ UNCHANGED <<ret, idx, picked, platformVars, task_state>>
        /\ highest_prio_task_ptr' \in Pointer
    BY <1>3 DEF SchedStore
  <2>2. SchedTypeOK' /\ TimerTypeInv'
    BY <1>pc, <2>1 DEF PC, SchedPC, SchedTypeOK
  <2> QED
    BY <1>0, <2>1, <2>2 DEF PlatformTypeOK, ListTypeInv
<1>4. CASE SchedCheck(t)
  <2>1. UNCHANGED <<platformVars, listVars>>
    BY <1>4 DEF SchedCheck
  <2> PICK task \in {picked[t], highest_prio_task_ptr} :
         IF Runnable(task_state, task)
         THEN /\ Goto(t, "sched_current")
              /\ picked' = [picked EXCEPT ![t] = task]
              /\ UNCHANGED <<idx, ret>>
         ELSE ReturnFromSchedule(t)
    BY <1>4 DEF SchedCheck
  <2>2. SchedTypeOK' /\ TimerTypeInv' /\ picked' \in [Tasks -> Pointer]
    <3>1. CASE ReturnFromSchedule(t)
      BY <1>0, <3>1, ReturnType
    <3>2. CASE /\ Goto(t, "sched_current")
               /\ picked' = [picked EXCEPT ![t] = task]
               /\ UNCHANGED <<idx, ret>>
      <4>1. picked' \in [Tasks -> Pointer]
        BY <3>2 DEF ListTypeInv
      <4> QED
        BY <1>pc, <3>2, <4>1 DEF PC, SchedPC, SchedTypeOK
    <3> QED
      BY <3>1, <3>2
  <2> QED
    BY <1>0, <2>1, <2>2 DEF PlatformTypeOK, ListTypeInv
<1>5. CASE SchedPreempt(t)
  <2>1. /\ Goto(t, "sched_commit")
        /\ UNCHANGED <<ret, idx, picked, platformVars, highest_prio_task_ptr>>
    BY <1>5 DEF SchedPreempt
  <2>2. task_state' \in [Tasks \cup {Idle} -> TaskState]
    BY <1>5 DEF SchedPreempt, PreemptCurrent, ListTypeInv, TaskState
  <2>3. SchedTypeOK' /\ TimerTypeInv'
    BY <1>pc, <2>1 DEF PC, SchedPC, SchedTypeOK
  <2> QED
    BY <1>0, <2>1, <2>2, <2>3 DEF PlatformTypeOK, ListTypeInv
<1>6. CASE SchedCommit(t)
  <2>1. /\ Goto(t, "sched_switch")
        /\ UNCHANGED <<ret, idx, picked, platformVars, highest_prio_task_ptr>>
    BY <1>6 DEF SchedCommit
  <2>2. task_state' \in [Tasks \cup {Idle} -> TaskState]
    BY <1>6 DEF SchedCommit, ListTypeInv, TaskState
  <2>3. SchedTypeOK' /\ TimerTypeInv'
    BY <1>pc, <2>1 DEF PC, SchedPC, SchedTypeOK
  <2> QED
    BY <1>0, <2>1, <2>2, <2>3 DEF PlatformTypeOK, ListTypeInv
<1>7. CASE SchedSwitch(t)
  <2>1. UNCHANGED listVars /\ ReturnFromSchedule(t) /\ pendsv' \in BOOLEAN
    BY <1>7 DEF SchedSwitch, context_switch, PlatformTypeOK
  <2> QED
    BY <1>0, <2>1, ReturnType DEF PlatformTypeOK, ListTypeInv
<1>8. CASE SchedCurrent(t) \/ SchedMatch(t)
  <2>1. /\ UNCHANGED <<platformVars, listVars>>
        /\ \/ ReturnFromSchedule(t)
           \/ /\ Goto(t, "sched_match") \/ Goto(t, "sched_preempt")
              /\ UNCHANGED <<idx, picked, ret>>
    BY <1>8 DEF SchedCurrent, SchedMatch
  <2>2. SchedTypeOK' /\ TimerTypeInv' /\ picked' \in [Tasks -> Pointer]
    <3>1. CASE ReturnFromSchedule(t)
      BY <1>0, <3>1, ReturnType
    <3>2. CASE /\ Goto(t, "sched_match") \/ Goto(t, "sched_preempt")
               /\ UNCHANGED <<idx, picked, ret>>
      BY <1>pc, <3>2 DEF PC, SchedPC, SchedTypeOK
    <3> QED
      BY <2>1, <3>1, <3>2
  <2> QED
    BY <1>0, <2>1, <2>2 DEF PlatformTypeOK, ListTypeInv
<1> QED
  BY <1>1, <1>2, <1>3, <1>4, <1>5, <1>6, <1>7, <1>8 DEF Schedule

\* Steps that change no more than the mask, the pending bit and the count of
\* the registered objects keep all the other types.
LEMMA PendSVType ==
  ASSUME TypeInv, PendSV, UNCHANGED <<blocked_list, timerVars, semVars, queueVars>>
  PROVE  TypeInv'
BY DEF TypeInv, PendSV, PlatformTypeOK, ListTypeInv, SchedTypeOK, schedVars,
       TimerTypeInv, timerVars, CommTypeInv, semVars, queueVars

\* A call that is refused restores the mask and does nothing else.
LEMMA RefusedType ==
  ASSUME TypeInv, enable_ctx_sw,
         UNCHANGED <<pendsv, listVars, blocked_list, schedVars, timerVars, semVars,
                     queueVars>>
  PROVE  TypeInv'
BY DEF TypeInv, enable_ctx_sw, PlatformTypeOK, ListTypeInv, listVars, SchedTypeOK,
       schedVars, TimerTypeInv, timerVars, CommTypeInv, semVars, queueVars

LEMMA CreateTaskType ==
  ASSUME TypeInv, NEW u \in Tasks, CreateTask(u), UNCHANGED <<blocked_list, timerVars, semVars, queueVars>>
  PROVE  TypeInv'
<1> USE DEF TypeInv
<1>1. PlatformTypeOK'
  BY DEF CreateTask, enable_ctx_sw, PlatformTypeOK
<1>2. ListTypeInv'
  <2>1. CASE Priority[u] \in Priorities
    <3>1. u \in Indexable /\ insert_into_ready_list(u)
      BY <2>1 DEF CreateTask, Indexable
    <3>2. task_state' \in [Tasks \cup {Idle} -> TaskState]
      BY <2>1 DEF CreateTask, ListTypeInv, TaskState
    <3> QED
      BY <3>1, <3>2, InsertReadyType DEF CreateTask, ListTypeInv
  <2>2. CASE Priority[u] \notin Priorities
    BY <2>2 DEF CreateTask, ListTypeInv
  <2> QED
    BY <2>1, <2>2
<1>3. SchedTypeOK' /\ picked' \in [Tasks -> Pointer]
  BY DEF CreateTask, SchedTypeOK
<1>4. TimerTypeInv' /\ CommTypeInv'
  BY DEF CreateTask, TimerTypeInv, timerVars, CommTypeInv, semVars, queueVars
<1> QED
  BY <1>1, <1>2, <1>3, <1>4

\* The program counter and the continuation of a task that calls schedule().
LEMMA CallScheduleType ==
  ASSUME TypeInv, NEW t \in Tasks, NEW label \in ReturnPC,
         CallSchedule(t, label), UNCHANGED <<task_list, idx, picked, boot>>,
         wild' \in BOOLEAN
  PROVE  /\ SchedTypeOK' /\ picked' \in [Tasks -> Pointer]
         /\ \A u \in Tasks : pc'[u] = "delay_block" => pc[u] = "delay_block" /\ u # t
<1>1. pc' \in [Tasks -> PC] /\ ret' \in [Tasks -> ReturnPC]
  BY DEF TypeInv, SchedTypeOK, CallSchedule, Goto, PC, SchedPC
<1>2. \A u \in Tasks : pc'[u] = "delay_block" => pc[u] = "delay_block" /\ u # t
  BY DEF TypeInv, SchedTypeOK, CallSchedule, Goto
<1> QED
  BY <1>1, <1>2 DEF TypeInv, SchedTypeOK

LEMMA YieldTaskType ==
  ASSUME TypeInv, NEW t \in Tasks, NEW u \in Tasks, YieldTask(t, u),
         UNCHANGED <<blocked_list, timerVars, semVars, queueVars>>
  PROVE  TypeInv'
<1> USE DEF TypeInv
<1>1. PlatformTypeOK'
  BY DEF YieldTask, enable_ctx_sw, PlatformTypeOK
<1>2. ready_list' \in [Priorities -> Seq(Indexable)]
  <2>1. CASE u \in Range(ready_list[Priority[u]]) /\ Priority[u] \in Priorities
    <3> PICK i \in DOMAIN ready_list[Priority[u]] :
          /\ ready_list[Priority[u]][i] = u
          /\ ready_list' = [ready_list EXCEPT
                              ![Priority[u]] = Append(RemoveAt(@, i), u)]
      BY <2>1 DEF YieldTask
    <3>1. ready_list[Priority[u]] \in Seq(Indexable)
      BY <2>1 DEF ListTypeInv
    <3>2. i \in 1..Len(ready_list[Priority[u]]) /\ u \in Indexable
      BY <3>1, ElementOfSeq, LenProperties
    <3>3. Append(RemoveAt(ready_list[Priority[u]], i), u) \in Seq(Indexable)
      BY <3>1, <3>2, RemoveAtType, AppendProperties
    <3> QED
      BY <2>1, <3>3 DEF ListTypeInv
  <2>2. CASE u \notin Range(ready_list[Priority[u]])
    BY <2>2 DEF YieldTask, ListTypeInv
  <2>3. Priority[u] \in Priorities
    BY DEF YieldTask, is_task_yieldable, ListTypeInv
  <2> QED
    BY <2>1, <2>2, <2>3
<1>3. ListTypeInv'
  BY <1>2 DEF YieldTask, ListTypeInv, TaskState
<1>4. wild' \in BOOLEAN
  BY DEF YieldTask, SchedTypeOK
<1>5. /\ SchedTypeOK' /\ picked' \in [Tasks -> Pointer]
      /\ \A v \in Tasks : pc'[v] = "delay_block" => pc[v] = "delay_block"
  BY <1>4, CallScheduleType DEF YieldTask, ReturnPC
<1>6. TimerTypeInv' /\ CommTypeInv'
  BY <1>5 DEF TimerTypeInv, timerVars, CommTypeInv, semVars, queueVars
<1> QED
  BY <1>1, <1>3, <1>5, <1>6

LEMMA StartKernelType ==
  ASSUME TypeInv, StartKernel, UNCHANGED <<blocked_list, timerVars, semVars, queueVars>>
  PROVE  TypeInv'
<1> USE DEF TypeInv
<1>1. [task_state EXCEPT ![Idle] = "RUNNING"] \in [Tasks \cup {Idle} -> TaskState]
  BY DEF ListTypeInv, TaskState
<1>2. ready_list' \in [Priorities -> Seq(Indexable)] /\ UNCHANGED ready_bitmap
  BY DEF StartKernel, ListTypeInv
<1>3. /\ task_state' \in [Tasks \cup {Idle} -> TaskState]
      /\ highest_prio_task_ptr' \in Pointer
      /\ pendsv' \in BOOLEAN
  BY <1>1, <1>2, ScheduleNowType DEF StartKernel, Pointer
<1>4. ListTypeInv'
  BY <1>2, <1>3 DEF StartKernel, ListTypeInv, Pointer
<1>5. SchedTypeOK' /\ picked' \in [Tasks -> Pointer]
  BY DEF StartKernel, SchedTypeOK
<1>6. PlatformTypeOK' /\ TimerTypeInv' /\ CommTypeInv'
  BY <1>3 DEF StartKernel, PlatformTypeOK, TimerTypeInv, timerVars, CommTypeInv, semVars, queueVars
<1> QED
  BY <1>4, <1>5, <1>6

\* set_timer puts a well-formed timer into the list.
LEMMA ArmTimerType ==
  ASSUME TypeInv, NEW t \in Indexable, NEW ms \in Int, ms < UINT32_MODULUS,
         NEW id \in TimerIds, ArmTimer(t, ms, id)
  PROVE  /\ delay_list' \in Seq(ArmedTimer)
         /\ timer_bitmap' \in SUBSET TimerIds
<1> PICK k \in 1..(Len(delay_list) + 1), left \in 0..ms :
      /\ ScanStopsAt(ms, k, left)
      /\ InsertTimer([id |-> id, task |-> t, delay |-> left], k)
  BY DEF ArmTimer
<1>1. left \in Ticks
  BY TimersAssumption DEF Ticks
<1>2. [id |-> id, task |-> t, delay |-> left] \in ArmedTimer
  BY <1>1 DEF ArmedTimer
<1>3. k <= Len(delay_list) => left < delay_list[k].delay
  BY DEF ScanStopsAt
<1>4. delay_list' \in Seq(ArmedTimer)
  BY <1>2, <1>3, InsertTimerType DEF TypeInv, TimerTypeInv
<1> QED
  BY <1>4 DEF ArmTimer, get_timer_instance, TypeInv, TimerTypeInv

LEMMA ExecutingIndexable ==
  ASSUME TypeInv, NEW t \in Tasks, Executing(t)
  PROVE  t \in Indexable
BY TasksAssumption DEF TypeInv, Executing, ListTypeInv, Pointer

LEMMA DelayTaskType ==
  ASSUME TypeInv, NEW t \in Tasks, NEW ms \in Delays, DelayTask(t, ms),
         UNCHANGED <<blocked_list, semVars, queueVars>>
  PROVE  TypeInv'
<1> USE DEF TypeInv
<1> PICK id \in TimerIds :
      /\ ArmTimer(t, ms, id)
      /\ armed' = [Reassigned(id, t) EXCEPT ![t] = [id |-> id, task |-> t]]
  BY DEF DelayTask
<1>1. t \in Indexable
  BY ExecutingIndexable DEF DelayTask, Calling, At
<1>2. ms \in Int /\ ms < UINT32_MODULUS
  BY TimersAssumption
<1>3. pc' \in [Tasks -> PC] /\ \A u \in Tasks : u # t => pc'[u] = pc[u]
  BY DEF DelayTask, Goto, SchedTypeOK, PC
<1>4. delay_list' \in Seq(ArmedTimer) /\ timer_bitmap' \in SUBSET TimerIds
  BY <1>1, <1>2, ArmTimerType
<1>5. TimerTypeInv'
  <2>1. /\ Reassigned(id, t) \in [Tasks -> ArmedEntry]
        /\ \A u \in Tasks : Reassigned(id, t)[u].id = armed[u].id
    BY DEF TimerTypeInv, Reassigned, ArmedEntry
  <2>2. [id |-> id, task |-> t] \in ArmedEntry
    BY DEF ArmedEntry
  <2>3. /\ armed' \in [Tasks -> ArmedEntry]
        /\ armed'[t].id = id
        /\ \A u \in Tasks \ {t} : armed'[u].id = armed[u].id
    BY <2>1, <2>2
  <2> QED
    BY <1>3, <1>4, <2>3 DEF TimerTypeInv
<1>6. SchedTypeOK' /\ picked' \in [Tasks -> Pointer]
  BY <1>3 DEF DelayTask, SchedTypeOK
<1>7. PlatformTypeOK' /\ ListTypeInv' /\ CommTypeInv'
  BY DEF DelayTask, disable_ctx_sw, PlatformTypeOK, ListTypeInv, listVars, CommTypeInv,
         semVars, queueVars
<1> QED
  BY <1>5, <1>6, <1>7

\* The two ends of set_timer.
BlocksDelayed(t) ==
  /\ Removable(t) /\ remove_from_ready_list(t)
  /\ task_state' = [task_state EXCEPT ![t] = "DELAY"]
  /\ CallSchedule(t, "delay_exit")
  /\ UNCHANGED <<timer_bitmap, delay_list>>

GivesTimerBack(t) ==
  /\ return_timer_instance(armed[t].id)
  /\ Goto(t, "user")
  /\ UNCHANGED <<task_state, ready_list, ready_bitmap, ret, delay_list>>

LEMMA DelayBlockEnds ==
  ASSUME NEW t, DelayBlock(t)
  PROVE  BlocksDelayed(t) \/ GivesTimerBack(t)
BY DEF DelayBlock, BlocksDelayed, GivesTimerBack

LEMMA DelayBlockType ==
  ASSUME TypeInv, NEW t \in Tasks, DelayBlock(t), UNCHANGED <<blocked_list, semVars, queueVars>>
  PROVE  TypeInv'
<1> USE DEF TypeInv
<1>1. t \in Indexable
  BY TasksAssumption DEF DelayBlock, At, Executing, ListTypeInv, Pointer
<1>2. armed[t].id \in TimerIds
  BY DEF DelayBlock, At, TimerTypeInv
<1>3. armed' \in [Tasks -> ArmedEntry] /\ \A u \in Tasks : u # t => armed'[u] = armed[u]
  BY DEF DelayBlock, TimerTypeInv, ArmedEntry, NotArmed
<1>4. PlatformTypeOK' /\ CommTypeInv'
  BY DEF DelayBlock, enable_ctx_sw, PlatformTypeOK, CommTypeInv, semVars, queueVars
<1>5. CASE BlocksDelayed(t)
  <2>1. /\ Removable(t) /\ remove_from_ready_list(t) /\ CallSchedule(t, "delay_exit")
        /\ task_state' = [task_state EXCEPT ![t] = "DELAY"]
        /\ UNCHANGED <<timer_bitmap, delay_list>>
    BY <1>5 DEF BlocksDelayed
  <2>2. ListTypeInv'
    BY <1>1, <2>1, RemoveReadyType DEF DelayBlock, ListTypeInv, TaskState
  <2>3. /\ SchedTypeOK' /\ picked' \in [Tasks -> Pointer]
        /\ \A u \in Tasks : pc'[u] = "delay_block" => pc[u] = "delay_block" /\ u # t
    BY <2>1, CallScheduleType DEF DelayBlock, SchedTypeOK, ReturnPC
  <2>4. TimerTypeInv'
    BY <1>3, <2>1, <2>3 DEF TimerTypeInv
  <2> QED
    BY <1>4, <2>2, <2>3, <2>4
<1>6. CASE GivesTimerBack(t)
  <2>1. /\ return_timer_instance(armed[t].id) /\ Goto(t, "user")
        /\ UNCHANGED <<task_state, ready_list, ready_bitmap, ret, delay_list>>
    BY <1>6 DEF GivesTimerBack
  <2>2. /\ pc' \in [Tasks -> PC]
        /\ \A u \in Tasks : pc'[u] = "delay_block" => pc[u] = "delay_block" /\ u # t
    BY <2>1 DEF Goto, SchedTypeOK, PC
  <2>3. TimerTypeInv'
    BY <1>2, <1>3, <2>1, <2>2 DEF TimerTypeInv, return_timer_instance
  <2>4. ListTypeInv'
    BY <2>1 DEF DelayBlock, ListTypeInv
  <2>5. SchedTypeOK' /\ picked' \in [Tasks -> Pointer]
    BY <2>1, <2>2 DEF DelayBlock, SchedTypeOK
  <2> QED
    BY <1>4, <2>3, <2>4, <2>5
<1> QED
  BY <1>5, <1>6, DelayBlockEnds

LEMMA DelayExitType ==
  ASSUME TypeInv, NEW t \in Tasks, DelayExit(t), UNCHANGED <<blocked_list, semVars, queueVars>>
  PROVE  TypeInv'
<1>1. pc' \in [Tasks -> PC] /\ TimerTypeInv'
  BY GotoType DEF DelayExit, PC
<1> QED
  BY <1>1 DEF TypeInv, DelayExit, enable_ctx_sw, PlatformTypeOK, ListTypeInv, listVars,
              SchedTypeOK, CommTypeInv, semVars, queueVars

LEMMA TickCountType ==
  ASSUME TypeInv, TickCount, UNCHANGED <<blocked_list, semVars, queueVars>>
  PROVE  TypeInv'
<1>1. delay_list \in Seq(ArmedTimer) /\ delay_list # <<>>
  BY DEF TypeInv, TimerTypeInv, TickCount
<1>2. 1 \in 1..Len(delay_list) /\ delay_list[1] \in ArmedTimer
  BY <1>1, EmptySeq, ElementOfSeq
<1>3. [delay_list[1] EXCEPT !.delay = Decremented(@)] \in ArmedTimer
  BY <1>2, DecrementedType DEF ArmedTimer
<1>4. delay_list' = [delay_list EXCEPT ![1] = [delay_list[1] EXCEPT !.delay = Decremented(@)]]
  BY DEF TickCount
<1>5. delay_list' \in Seq(ArmedTimer)
  BY <1>1, <1>2, <1>3, <1>4, ExceptSeq
<1> QED
  BY <1>5 DEF TypeInv, TickCount, PlatformTypeOK, platformVars, ListTypeInv, listVars,
              SchedTypeOK, schedVars, TimerTypeInv, CommTypeInv, semVars, queueVars

LEMMA TickExpireType ==
  ASSUME TypeInv, TickExpire, UNCHANGED <<blocked_list, semVars, queueVars>>
  PROVE  TypeInv'
<1> USE DEF TypeInv
<1> DEFINE timer == Head(delay_list)
<1>1. timer \in ArmedTimer /\ Tail(delay_list) \in Seq(ArmedTimer)
  BY HeadTailProperties DEF TimerTypeInv, TickExpire
<1>2. timer.id \in TimerIds /\ timer.task \in Indexable
  BY <1>1 DEF ArmedTimer
<1>3. TimerTypeInv'
  BY <1>1, <1>2 DEF TickExpire, return_timer_instance, TimerTypeInv, schedVars
<1>4. SchedTypeOK' /\ picked' \in [Tasks -> Pointer] /\ CommTypeInv'
  BY DEF TickExpire, SchedTypeOK, schedVars, CommTypeInv, semVars, queueVars
<1>5. /\ ready_list' \in [Priorities -> Seq(Indexable)]
      /\ ready_bitmap' \in SUBSET Priorities
      /\ \E states \in [Tasks \cup {Idle} -> TaskState] : ScheduleNow(states, curr_task_ptr)
  <2>1. CASE task_state[timer.task] = "DELAY"
    <3>1. /\ insert_into_ready_list(timer.task)
          /\ ScheduleNow([task_state EXCEPT ![timer.task] = "READY"], curr_task_ptr)
      BY <2>1 DEF TickExpire
    <3>2. [task_state EXCEPT ![timer.task] = "READY"] \in [Tasks \cup {Idle} -> TaskState]
      BY DEF ListTypeInv, TaskState
    <3> QED
      BY <1>2, <3>1, <3>2, InsertReadyType
  <2>2. CASE task_state[timer.task] # "DELAY"
    BY <2>2 DEF TickExpire, ListTypeInv
  <2> QED
    BY <2>1, <2>2
<1>6. /\ task_state' \in [Tasks \cup {Idle} -> TaskState]
      /\ highest_prio_task_ptr' \in Pointer
      /\ pendsv' \in BOOLEAN
  BY <1>5, ScheduleNowType DEF ListTypeInv
<1>7. PlatformTypeOK' /\ ListTypeInv'
  BY <1>5, <1>6 DEF TickExpire, PlatformTypeOK, ListTypeInv
<1> QED
  BY <1>3, <1>4, <1>7

-----------------------------------------------------------------------------
(* Steps that block and wake                                               *)

\* The current task joins the tasks that are blocked in list l.
LEMMA BlockInType ==
  ASSUME TypeInv, NEW t \in Indexable, NEW l \in BlockedLists,
         NEW state \in TaskState, BlockIn(t, l, state)
  PROVE  /\ task_state' \in [Tasks \cup {Idle} -> TaskState]
         /\ ready_list' \in [Priorities -> Seq(Indexable)]
         /\ ready_bitmap' \in SUBSET Priorities
         /\ blocked_list' \in [BlockedLists -> Seq(Indexable)]
<1> USE DEF TypeInv
<1>1. /\ ready_list' \in [Priorities -> Seq(Indexable)]
      /\ ready_bitmap' \in SUBSET Priorities
  BY RemoveReadyType DEF BlockIn
<1>2. blocked_list' \in [BlockedLists -> Seq(Indexable)]
  <2> PICK k \in 1..(Len(blocked_list[l]) + 1) :
        blocked_list' = [blocked_list EXCEPT ![l] = InsertAt(@, k, t)]
    BY DEF BlockIn
  <2>1. InsertAt(blocked_list[l], k, t) \in Seq(Indexable)
    BY InsertAtType DEF CommTypeInv
  <2> QED
    BY <2>1 DEF CommTypeInv
<1>3. task_state' \in [Tasks \cup {Idle} -> TaskState]
  BY DEF BlockIn, ListTypeInv
<1> QED
  BY <1>1, <1>2, <1>3

\* The head of list l becomes ready.
LEMMA WakeHeadType ==
  ASSUME TypeInv, NEW l \in BlockedLists, blocked_list[l] # <<>>, WakeHead(l)
  PROVE  /\ task_state' \in [Tasks \cup {Idle} -> TaskState]
         /\ ready_list' \in [Priorities -> Seq(Indexable)]
         /\ ready_bitmap' \in SUBSET Priorities
         /\ blocked_list' \in [BlockedLists -> Seq(Indexable)]
         /\ Head(blocked_list[l]) \in Indexable
<1> USE DEF TypeInv
<1> DEFINE waiter == Head(blocked_list[l])
<1>1. waiter \in Indexable /\ Tail(blocked_list[l]) \in Seq(Indexable)
  BY HeadTailProperties DEF CommTypeInv
<1>2. /\ insert_into_ready_list(waiter)
      /\ blocked_list' = [blocked_list EXCEPT ![l] = remove_from_blocked_list(@)]
      /\ task_state' = [task_state EXCEPT ![waiter] = "READY"]
  BY DEF WakeHead
<1>3. remove_from_blocked_list(blocked_list[l]) \in Seq(Indexable)
  BY <1>1 DEF remove_from_blocked_list, CommTypeInv
<1>4. blocked_list' \in [BlockedLists -> Seq(Indexable)]
  BY <1>2, <1>3 DEF CommTypeInv
<1>5. task_state' \in [Tasks \cup {Idle} -> TaskState]
  BY <1>2 DEF ListTypeInv, TaskState
<1> QED
  BY <1>1, <1>2, <1>4, <1>5, InsertReadyType

\* A step of a call whose task goes on in kernel code or in its own.
LEMMA CallType ==
  ASSUME TypeInv, NEW t \in Tasks, NEW label \in PC \ {"delay_block"}, Goto(t, label),
         ret' \in [Tasks -> ReturnPC], disable_ctx_sw \/ enable_ctx_sw,
         UNCHANGED <<pendsv, curr_task_ptr, highest_prio_task_ptr, task_list, idx,
                     picked, boot>>,
         wild' \in BOOLEAN, ArmedKept,
         delay_list' \in Seq(ArmedTimer), timer_bitmap' \in SUBSET TimerIds,
         task_state' \in [Tasks \cup {Idle} -> TaskState],
         ready_list' \in [Priorities -> Seq(Indexable)],
         ready_bitmap' \in SUBSET Priorities,
         CommTypeInv'
  PROVE  TypeInv'
<1> USE DEF TypeInv
<1>1. /\ pc' \in [Tasks -> PC]
      /\ \A u \in Tasks : pc'[u] = "delay_block" => pc[u] = "delay_block"
  BY DEF SchedTypeOK, Goto
<1>2. SchedTypeOK' /\ picked' \in [Tasks -> Pointer]
  BY <1>1 DEF SchedTypeOK
<1>3. TimerTypeInv'
  BY <1>1 DEF TimerTypeInv, ArmedKept
<1>4. PlatformTypeOK' /\ ListTypeInv'
  BY DEF disable_ctx_sw, enable_ctx_sw, PlatformTypeOK, ListTypeInv
<1> QED
  BY <1>2, <1>3, <1>4

\* A semaphore call that goes on to schedule().
LEMMA SemaphoreCallType ==
  ASSUME TypeInv, NEW t \in Tasks, CallSchedule(t, "user"),
         disable_ctx_sw \/ enable_ctx_sw,
         UNCHANGED <<pendsv, curr_task_ptr, highest_prio_task_ptr, task_list, idx,
                     picked, boot, wild, timerVars, queueVars>>,
         task_state' \in [Tasks \cup {Idle} -> TaskState],
         ready_list' \in [Priorities -> Seq(Indexable)],
         ready_bitmap' \in SUBSET Priorities,
         blocked_list' \in [BlockedLists -> Seq(Indexable)],
         sem_list' \in SUBSET Semaphores, sem_val' \in [Semaphores -> 0..SEM_MAX]
  PROVE  TypeInv'
<1>1. ret' \in [Tasks -> ReturnPC] /\ wild' \in BOOLEAN
  BY DEF CallSchedule, ReturnPC, TypeInv, SchedTypeOK
<1>2. "sched_index" \in PC \ {"delay_block"}
  BY DEF PC, SchedPC
<1>3. CommTypeInv'
  BY DEF TypeInv, CommTypeInv, queueVars
<1> QED
  BY <1>1, <1>2, <1>3, UnchangedKept, CallType
  DEF CallSchedule, timerVars, TypeInv, TimerTypeInv

-----------------------------------------------------------------------------
(* Semaphores                                                              *)

LEMMA CreateSemaphoreType ==
  ASSUME TypeInv, NEW s \in Semaphores, NEW v \in InitialCounts,
         CreateSemaphore(s, v), UNCHANGED <<timerVars, queueVars>>
  PROVE  TypeInv'
<1>1. CommTypeInv'
  BY SemaphoresAssumption, EmptySeq
  DEF TypeInv, CommTypeInv, CreateSemaphore, queueVars
<1> QED
  BY <1>1 DEF TypeInv, CreateSemaphore, enable_ctx_sw, PlatformTypeOK, ListTypeInv,
              listVars, SchedTypeOK, schedVars, TimerTypeInv, timerVars

LEMMA WaitListKnown ==
  ASSUME NEW s \in Semaphores
  PROVE  WaitList(s) \in BlockedLists
BY SemaphoresAssumption DEF WaitList

LEMMA PostCountType ==
  ASSUME TypeInv, NEW t \in Tasks, NEW s \in Semaphores, PostCount(t, s),
         UNCHANGED <<timerVars, queueVars>>
  PROVE  TypeInv'
<1>1. sem_val' \in [Semaphores -> 0..SEM_MAX]
  BY SemaphoresAssumption DEF TypeInv, CommTypeInv, PostCount, Incremented
<1> QED
  BY <1>1, SemaphoreCallType DEF PostCount, listVars, TypeInv, ListTypeInv, CommTypeInv

LEMMA PostWakeType ==
  ASSUME TypeInv, NEW t \in Tasks, NEW s \in Semaphores, PostWake(t, s),
         UNCHANGED <<timerVars, queueVars>>
  PROVE  TypeInv'
BY SemaphoreCallType, WakeHeadType, WaitListKnown
DEF PostWake, semVars, TypeInv, CommTypeInv

LEMMA WaitTakeType ==
  ASSUME TypeInv, NEW t \in Tasks, NEW s \in Semaphores, WaitTake(t, s),
         UNCHANGED <<timerVars, queueVars>>
  PROVE  TypeInv'
<1>1. sem_val' \in [Semaphores -> 0..SEM_MAX]
  BY SemaphoresAssumption DEF TypeInv, CommTypeInv, WaitTake, HasToken
<1> QED
  BY <1>1, SemaphoreCallType DEF WaitTake, listVars, TypeInv, ListTypeInv, CommTypeInv

LEMMA WaitBlockType ==
  ASSUME TypeInv, NEW t \in Tasks, NEW s \in Semaphores, WaitBlock(t, s),
         UNCHANGED <<timerVars, queueVars>>
  PROVE  TypeInv'
<1>1. t \in Indexable
  BY ExecutingIndexable DEF WaitBlock, Calling, At
<1>2. "WAITING_SEMA" \in TaskState
  BY DEF TaskState
<1> QED
  BY <1>1, <1>2, BlockInType, WaitListKnown, SemaphoreCallType
  DEF WaitBlock, semVars, TypeInv, CommTypeInv

-----------------------------------------------------------------------------
(* Queues                                                                  *)

LEMMA QueueListsKnown ==
  ASSUME NEW q \in Queues
  PROVE  SendList(q) \in BlockedLists /\ ReceiveList(q) \in BlockedLists
BY QueuesAssumption DEF SendList, ReceiveList

LEMMA CreateQueueType ==
  ASSUME TypeInv, NEW q \in Queues, NEW length \in QueueLengths, NEW size \in SlotSizes,
         CreateQueue(q, length, size), UNCHANGED semVars
  PROVE  TypeInv'
<1> DEFINE room == ((size * length) % UINT32_MODULUS) \div size
<1>1. room \in Nat
  <2>1. size \in Nat \ {0} /\ length \in Nat \ {0} /\ UINT32_MODULUS \in Nat \ {0}
    BY QueuesAssumption, TimersAssumption DEF CreateQueue
  <2>2. size * length \in Nat
    BY <2>1
  <2> DEFINE bytes == (size * length) % UINT32_MODULUS
  <2>3. bytes \in Nat
    BY <2>1, <2>2
  <2> HIDE DEF bytes
  <2>4. bytes \div size \in Nat
    BY <2>1, <2>3
  <2> QED
    BY <2>4 DEF bytes
<1> HIDE DEF room
<1>2. queue' = [queue EXCEPT ![q] = EmptyQueue(length, room)]
  BY DEF CreateQueue, room
<1>3. queue' \in [Queues -> {qu \in Queue : RingOK(qu)}]
  BY <1>1, <1>2, EmptyQueueType DEF TypeInv, CommTypeInv
<1>4. CommTypeInv'
  BY <1>3, EmptySeq DEF TypeInv, CommTypeInv, CreateQueue, semVars
<1> QED
  BY <1>4 DEF TypeInv, CreateQueue, enable_ctx_sw, PlatformTypeOK, ListTypeInv,
              listVars, SchedTypeOK, schedVars, TimerTypeInv, timerVars

\* The parts of CommTypeInv a queue call may change.
LEMMA CommType ==
  ASSUME TypeInv, UNCHANGED semVars,
         blocked_list' \in [BlockedLists -> Seq(Indexable)],
         queue' \in [Queues -> {qu \in Queue : RingOK(qu)}],
         buffer' \in [Tasks -> Datum],
         request' \in [Tasks -> [queue : Queues \cup {NoQueue}, ms : Timeouts \cup {0}]]
  PROVE  CommTypeInv'
BY DEF TypeInv, CommTypeInv, semVars

LEMMA WaitInQueueType ==
  ASSUME TypeInv, NEW t \in Tasks, Executing(t), NEW q \in Queues, NEW l \in BlockedLists,
         NEW state \in TaskState, NEW ms \in Timeouts, NEW resume \in ReturnPC,
         WaitInQueue(t, q, l, state, ms, resume),
         buffer' \in [Tasks -> Datum], UNCHANGED semVars
  PROVE  TypeInv'
<1>1. t \in Indexable
  BY ExecutingIndexable
<1>2. request' \in [Tasks -> [queue : Queues \cup {NoQueue}, ms : Timeouts \cup {0}]]
  BY DEF WaitInQueue, TypeInv, CommTypeInv
<1>3. CommTypeInv'
  BY <1>1, <1>2, BlockInType, CommType DEF WaitInQueue, TypeInv, CommTypeInv
<1>4. ret' \in [Tasks -> ReturnPC] /\ wild' \in BOOLEAN
  BY DEF WaitInQueue, TypeInv, SchedTypeOK
<1>5. PICK label \in {"queue_arm", "sched_index"} :
        Goto(t, label) /\ (disable_ctx_sw \/ enable_ctx_sw)
  BY DEF WaitInQueue
<1>6. label \in PC \ {"delay_block"}
  BY DEF PC, SchedPC, QueuePC
<1>7. delay_list' \in Seq(ArmedTimer) /\ timer_bitmap' \in SUBSET TimerIds /\ ArmedKept
  BY UnchangedKept DEF WaitInQueue, timerVars, TypeInv, TimerTypeInv
<1> QED
  BY <1>1, <1>3, <1>4, <1>5, <1>6, <1>7, BlockInType, CallType DEF WaitInQueue

LEMMA ReturnFalseType ==
  ASSUME TypeInv, NEW t \in Tasks, ReturnFalse(t), UNCHANGED <<buffer, semVars>>
  PROVE  TypeInv'
<1>1. request' \in [Tasks -> [queue : Queues \cup {NoQueue}, ms : Timeouts \cup {0}]]
  BY DEF ReturnFalse, NoCall, TypeInv, CommTypeInv
<1>2. CommTypeInv'
  BY <1>1, CommType DEF ReturnFalse, TypeInv, CommTypeInv
<1>3. ret' \in [Tasks -> ReturnPC] /\ wild' \in BOOLEAN
  BY DEF ReturnFalse, TypeInv, SchedTypeOK, ReturnPC
<1>4. "user" \in PC \ {"delay_block"}
  BY DEF PC
<1> QED
  BY <1>2, <1>3, <1>4, UnchangedKept, CallType
  DEF ReturnFalse, listVars, timerVars, TypeInv, TimerTypeInv, ListTypeInv

LEMMA QueueArmType ==
  ASSUME TypeInv, NEW t \in Tasks, QueueArm(t), UNCHANGED semVars
  PROVE  TypeInv'
<1>1. CASE is_task_delayable(t, request[t].ms) /\ timer_bitmap # {}
  <2> PICK id \in TimerIds : ArmTimer(t, request[t].ms, id) /\ armed' = Reassigned(id, t)
    BY <1>1 DEF QueueArm
  <2>1. t \in Indexable
    BY ExecutingIndexable DEF QueueArm, At
  <2>2. request[t].ms \in Timeouts \cup {0}
    BY DEF TypeInv, CommTypeInv
  <2>3. request[t].ms \in Int /\ request[t].ms < UINT32_MODULUS
    BY <2>2, QueueArguments
  <2>4. delay_list' \in Seq(ArmedTimer) /\ timer_bitmap' \in SUBSET TimerIds
    BY <2>1, <2>3, ArmTimerType
  <2>5. CommTypeInv'
    BY <1>1, CommType DEF QueueArm, TypeInv, CommTypeInv
  <2>6. "sched_index" \in PC \ {"delay_block"}
    BY DEF PC, SchedPC
  <2>7. /\ Goto(t, "sched_index") /\ enable_ctx_sw
        /\ UNCHANGED <<pendsv, listVars, blocked_list, task_list, idx, picked,
                       ret, boot, wild>>
    BY <1>1 DEF QueueArm
  <2> QED
    BY <2>4, <2>5, <2>6, <2>7, ReassignedKept, CallType DEF listVars, TypeInv, ListTypeInv, SchedTypeOK
<1>2. CASE ~(is_task_delayable(t, request[t].ms) /\ timer_bitmap # {})
  BY <1>2, ReturnFalseType DEF QueueArm
<1> QED
  BY <1>1, <1>2

LEMMA UnlinkedType ==
  ASSUME delay_list \in Seq(ArmedTimer), NEW k \in 1..Len(delay_list)
  PROVE  Unlinked(k) \in Seq(ArmedTimer)
<1> DEFINE rest == IF k < Len(delay_list)
                     THEN [delay_list EXCEPT ![k + 1].delay =
                             (@ + delay_list[k].delay) % UINT32_MODULUS]
                     ELSE delay_list
<1>1. rest \in Seq(ArmedTimer) /\ Len(rest) = Len(delay_list)
  <2>1. CASE k < Len(delay_list)
    <3>1. delay_list[k] \in ArmedTimer /\ delay_list[k + 1] \in ArmedTimer
      BY <2>1, ElementOfSeq
    <3> DEFINE ticks == (delay_list[k + 1].delay + delay_list[k].delay) % UINT32_MODULUS
    <3>2. ticks \in Ticks
      <4>1. delay_list[k + 1].delay \in Nat /\ delay_list[k].delay \in Nat
        BY <3>1, TimersAssumption DEF ArmedTimer, Ticks
      <4>2. \A n \in Nat : n % UINT32_MODULUS \in Ticks
        BY TimersAssumption DEF Ticks
      <4> QED
        BY <4>1, <4>2
    <3> HIDE DEF ticks
    <3>3. [delay_list[k + 1] EXCEPT !.delay = ticks] \in ArmedTimer
      BY <3>1, <3>2 DEF ArmedTimer
    <3>4. rest = [delay_list EXCEPT ![k + 1] = [delay_list[k + 1] EXCEPT !.delay = ticks]]
      BY <2>1 DEF ticks
    <3> HIDE DEF rest
    <3> QED
      BY <2>1, <3>3, <3>4, ExceptSeq
  <2>2. CASE ~(k < Len(delay_list))
    BY <2>2
  <2> QED
    BY <2>1, <2>2
<1>2. Unlinked(k) = RemoveAt(rest, k)
  BY DEF Unlinked
<1> HIDE DEF rest
<1> QED
  BY <1>1, <1>2, RemoveAtType

LEMMA ClearTimerType ==
  ASSUME TypeInv, NEW t, clear_timer(t)
  PROVE  delay_list' \in Seq(ArmedTimer) /\ timer_bitmap' \in SUBSET TimerIds /\ ArmedKept
<1>1. delay_list \in Seq(ArmedTimer) /\ timer_bitmap \in SUBSET TimerIds
  BY DEF TypeInv, TimerTypeInv
<1>2. CASE HasTimer(t)
  <2> PICK k \in DOMAIN delay_list :
        /\ delay_list' = Unlinked(k)
        /\ return_timer_instance(delay_list[k].id)
        /\ armed' = Reassigned(delay_list[k].id, NoTask)
    BY <1>2 DEF clear_timer
  <2>1. k \in 1..Len(delay_list)
    BY <1>1, LenProperties
  <2>2. delay_list[k] \in ArmedTimer
    BY <1>1, <2>1, ElementOfSeq
  <2>3. delay_list[k].id \in TimerIds
    BY <2>2 DEF ArmedTimer
  <2> QED
    BY <1>1, <2>1, <2>3, UnlinkedType, ReassignedKept DEF return_timer_instance
<1>3. CASE ~HasTimer(t)
  BY <1>1, <1>3, UnchangedKept DEF clear_timer, timerVars
<1> QED
  BY <1>2, <1>3

\* The end of a send or a receive.
LEMMA NotifyType ==
  ASSUME TypeInv, NEW t \in Tasks, NEW l \in BlockedLists, Notify(t, l),
         queue' \in [Queues -> {qu \in Queue : RingOK(qu)}],
         buffer' \in [Tasks -> Datum], wild' \in BOOLEAN, UNCHANGED semVars
  PROVE  TypeInv'
<1>1. request' \in [Tasks -> [queue : Queues \cup {NoQueue}, ms : Timeouts \cup {0}]]
  BY DEF Notify, NoCall, TypeInv, CommTypeInv
<1>2. enable_ctx_sw /\ UNCHANGED <<pendsv, curr_task_ptr, highest_prio_task_ptr,
                                   task_list, idx, picked, boot>>
  BY DEF Notify
<1>3. {"user", "sched_index"} \subseteq PC \ {"delay_block"} /\ "queue_exit" \in ReturnPC
  BY DEF PC, SchedPC, ReturnPC
<1>4. CASE Awaited(l) /\ Wakeable(l)
  <2>1. WakeHead(l) /\ CallSchedule(t, "queue_exit") /\ clear_timer(Head(blocked_list[l]))
    BY <1>4 DEF Notify
  <2>2. CommTypeInv'
    BY <1>1, <1>4, <2>1, WakeHeadType, CommType DEF Awaited
  <2>3. ret' \in [Tasks -> ReturnPC]
    BY <1>3, <2>1 DEF CallSchedule, TypeInv, SchedTypeOK
  <2>4. delay_list' \in Seq(ArmedTimer) /\ timer_bitmap' \in SUBSET TimerIds /\ ArmedKept
    BY <2>1, ClearTimerType
  <2> QED
    BY <1>2, <1>3, <1>4, <2>1, <2>2, <2>3, <2>4, WakeHeadType, CallType
    DEF CallSchedule, Awaited
<1>5. CASE ~(Awaited(l) /\ Wakeable(l))
  <2>1. /\ Goto(t, "user")
        /\ UNCHANGED <<task_state, ready_list, ready_bitmap, blocked_list, ret,
                       timerVars>>
    BY <1>5 DEF Notify
  <2>2. CommTypeInv'
    BY <1>1, <2>1, CommType DEF TypeInv, CommTypeInv
  <2> QED
    BY <1>2, <1>3, <2>1, <2>2, UnchangedKept, CallType
    DEF TypeInv, SchedTypeOK, ListTypeInv, TimerTypeInv, timerVars
<1> QED
  BY <1>4, <1>5

LEMMA PushType ==
  ASSUME TypeInv, NEW t \in Tasks, NEW q \in Queues, NEW d \in Datum, ~Full(q),
         Push(t, q, d), buffer' \in [Tasks -> Datum], UNCHANGED semVars
  PROVE  TypeInv'
<1>1. queue[q] \in Queue /\ RingOK(queue[q]) /\ queue[q].count # queue[q].capacity
  BY DEF TypeInv, CommTypeInv, Full
<1>2. Pushed(queue[q], d) \in Queue /\ RingOK(Pushed(queue[q], d))
  BY <1>1, PushedType
<1>3. queue' \in [Queues -> {qu \in Queue : RingOK(qu)}]
  BY <1>2 DEF Push, TypeInv, CommTypeInv
<1>4. wild' \in BOOLEAN
  BY DEF Push
<1> QED
  BY <1>3, <1>4, NotifyType, QueueListsKnown DEF Push

LEMMA PopType ==
  ASSUME TypeInv, NEW t \in Tasks, NEW q \in Queues, ~Empty(q), Pop(t, q), UNCHANGED semVars
  PROVE  TypeInv'
<1>1. queue[q] \in Queue /\ RingOK(queue[q]) /\ queue[q].count # 0
  BY DEF TypeInv, CommTypeInv, Empty
<1>2. /\ Popped(queue[q]) \in Queue /\ RingOK(Popped(queue[q]))
      /\ queue[q].slots[queue[q].head] \in Datum
  BY <1>1, PoppedType
<1>3. queue' \in [Queues -> {qu \in Queue : RingOK(qu)}]
  BY <1>2 DEF Pop, TypeInv, CommTypeInv
<1>4. buffer' \in [Tasks -> Datum] /\ wild' \in BOOLEAN
  BY <1>2 DEF Pop, TypeInv, CommTypeInv
<1> QED
  BY <1>3, <1>4, NotifyType, QueueListsKnown DEF Pop

LEMMA SendType ==
  ASSUME TypeInv, NEW t \in Tasks, NEW q \in Queues, NEW d \in Messages, UNCHANGED semVars,
         \/ SendNow(t, q, d)
         \/ \E ms \in Timeouts : SendWait(t, q, d, ms) \/ SendRefused(t, q, ms)
  PROVE  TypeInv'
<1>1. d \in Datum /\ [buffer EXCEPT ![t] = d] \in [Tasks -> Datum]
  BY DEF Datum, TypeInv, CommTypeInv
<1>2. CASE SendNow(t, q, d)
  BY <1>1, <1>2, PushType DEF SendNow
<1>3. ASSUME NEW ms \in Timeouts, SendWait(t, q, d, ms)
      PROVE  TypeInv'
  <2>1. "WAITING_SEND" \in TaskState /\ "send_resume" \in ReturnPC
    BY DEF TaskState, ReturnPC
  <2>2. Executing(t)
    BY <1>3 DEF SendWait, SendCall, Calling, At
  <2> QED
    BY <1>1, <1>3, <2>1, <2>2, WaitInQueueType, QueueListsKnown DEF SendWait
<1>4. ASSUME NEW ms \in Timeouts, SendRefused(t, q, ms)
      PROVE  TypeInv'
  BY <1>4, ReturnFalseType DEF SendRefused
<1> QED
  BY <1>2, <1>3, <1>4

LEMMA ReceiveType ==
  ASSUME TypeInv, NEW t \in Tasks, NEW q \in Queues, UNCHANGED semVars,
         \/ ReceiveNow(t, q)
         \/ \E ms \in Timeouts : ReceiveWait(t, q, ms) \/ ReceiveRefused(t, q, ms)
  PROVE  TypeInv'
<1>1. CASE ReceiveNow(t, q)
  BY <1>1, PopType DEF ReceiveNow
<1>2. ASSUME NEW ms \in Timeouts, ReceiveWait(t, q, ms)
      PROVE  TypeInv'
  <2>1. "WAITING_RECV" \in TaskState /\ "receive_resume" \in ReturnPC
    BY DEF TaskState, ReturnPC
  <2>2. Executing(t) /\ UNCHANGED buffer
    BY <1>2 DEF ReceiveWait, ReceiveCall, Calling, At
  <2>3. buffer' \in [Tasks -> Datum]
    BY <2>2 DEF TypeInv, CommTypeInv
  <2> QED
    BY <1>2, <2>1, <2>2, <2>3, WaitInQueueType, QueueListsKnown DEF ReceiveWait
<1>3. ASSUME NEW ms \in Timeouts, ReceiveRefused(t, q, ms)
      PROVE  TypeInv'
  BY <1>3, ReturnFalseType DEF ReceiveRefused
<1> QED
  BY <1>1, <1>2, <1>3

LEMMA ResumeType ==
  ASSUME TypeInv, NEW t \in Tasks, NEW q \in Queues, UNCHANGED semVars,
         SendResume(t, q) \/ ReceiveResume(t, q)
  PROVE  TypeInv'
<1>1. buffer \in [Tasks -> Datum] /\ buffer[t] \in Datum
  BY DEF TypeInv, CommTypeInv
<1>2. CASE SendResume(t, q) /\ Full(q)
  BY <1>2, ReturnFalseType DEF SendResume
<1>3. CASE SendResume(t, q) /\ ~Full(q)
  BY <1>1, <1>3, PushType DEF SendResume
<1>4. CASE ReceiveResume(t, q) /\ Empty(q)
  BY <1>4, ReturnFalseType DEF ReceiveResume
<1>5. CASE ReceiveResume(t, q) /\ ~Empty(q)
  BY <1>5, PopType DEF ReceiveResume
<1> QED
  BY <1>2, <1>3, <1>4, <1>5

LEMMA QueueExitType ==
  ASSUME TypeInv, NEW t \in Tasks, QueueExit(t), UNCHANGED semVars
  PROVE  TypeInv'
<1>1. pc' \in [Tasks -> PC] /\ TimerTypeInv'
  BY GotoType DEF QueueExit, PC
<1> QED
  BY <1>1 DEF TypeInv, QueueExit, enable_ctx_sw, PlatformTypeOK, ListTypeInv, listVars,
              SchedTypeOK, CommTypeInv, semVars, queueVars

-----------------------------------------------------------------------------
LEMMA TypeStep == TypeInv /\ [Next]_vars => TypeInv'
<1> SUFFICES ASSUME TypeInv, [Next]_vars PROVE TypeInv'
  OBVIOUS
<1>1. CASE SchedulerStep
  <2>1. ASSUME NEW u \in Tasks, CreateRefused(u) PROVE TypeInv'
    BY <1>1, <2>1, RefusedType DEF SchedulerStep, CreateRefused
  <2>2. ASSUME NEW t \in Tasks, NEW u \in Tasks, YieldRefused(t, u) PROVE TypeInv'
    BY <1>1, <2>2, RefusedType DEF SchedulerStep, YieldRefused
  <2> QED
    BY <1>1, <2>1, <2>2, ScheduleType, PendSVType, CreateTaskType, YieldTaskType,
       StartKernelType DEF SchedulerStep
<1>2. CASE TimerStep
  <2>1. ASSUME NEW t \in Tasks, NEW ms \in Delays, DelayRefused(t, ms) PROVE TypeInv'
    BY <1>2, <2>1, RefusedType DEF TimerStep, DelayRefused
  <2>2. CASE TickIdle
    BY <1>2, <2>2 DEF TimerStep, TickIdle, TypeInv, PlatformTypeOK, platformVars,
       ListTypeInv, listVars, SchedTypeOK, schedVars, TimerTypeInv, timerVars, CommTypeInv, semVars, queueVars
  <2> QED
    BY <1>2, <2>1, <2>2, DelayTaskType, DelayBlockType, DelayExitType, TickCountType,
       TickExpireType DEF TimerStep
<1>3. CASE SemaphoreStep
  <2>1. ASSUME NEW s \in Semaphores, CreateSemaphoreRefused(s) PROVE TypeInv'
    BY <1>3, <2>1, RefusedType DEF SemaphoreStep, CreateSemaphoreRefused
  <2>2. ASSUME NEW t \in Tasks, NEW s \in Semaphores, PostRefused(t, s) \/ WaitRefused(t, s)
        PROVE  TypeInv'
    BY <1>3, <2>2, RefusedType DEF SemaphoreStep, PostRefused, WaitRefused
  <2> QED
    BY <1>3, <2>1, <2>2, CreateSemaphoreType, PostCountType, PostWakeType, WaitTakeType,
       WaitBlockType DEF SemaphoreStep
<1>4. CASE QueueStep
  <2>1. CASE CreateQueueFails
    BY <1>4, <2>1, RefusedType DEF QueueStep, CreateQueueFails
  <2>2. UNCHANGED semVars
    BY <1>4 DEF QueueStep
  <2>3. ASSUME NEW t \in Tasks, NEW q \in Queues, NEW ms \in Timeouts, SendRefused(t, q, ms)
        PROVE  TypeInv'
    BY <2>2, <2>3, ReturnFalseType DEF SendRefused
  <2> QED
    BY <1>4, <2>1, <2>2, <2>3, CreateQueueType, SendType, ReceiveType, ResumeType,
       QueueArmType, QueueExitType DEF QueueStep
<1>5. CASE UNCHANGED vars
  BY <1>5 DEF vars, TypeInv, PlatformTypeOK, platformVars, ListTypeInv, listVars,
     SchedTypeOK, schedVars, TimerTypeInv, timerVars, CommTypeInv, semVars, queueVars
<1> QED
  BY <1>1, <1>2, <1>3, <1>4, <1>5 DEF Next

\* The strengthened type invariant, which the other proofs start from.
THEOREM TypeInvariance == Spec => []TypeInv
<1>1. TypeInv /\ [Next]_vars => TypeInv'
  BY TypeStep
<1> QED
  BY TypeInit, <1>1, PTL DEF Spec

\* Type correctness of the kernel: no step of any call, of the tick handler or
\* of a context switch takes a variable out of the range of its declaration.
THEOREM TypeCorrect == Spec => []TypeOK
BY TypeInvariance, TypeInvImpliesTypeOK, PTL
=============================================================================
