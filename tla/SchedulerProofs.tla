-------------------------- MODULE SchedulerProofs --------------------------
(***************************************************************************)
(* Who runs, when schedule() is not raced by a tick: with no timer ever    *)
(* armed, with no yield, and with a mask that holds nothing off (as on the *)
(* STM32F303), a switch follows its request at once.                       *)
(***************************************************************************)
EXTENDS KernelListProofs

SwitchesAtOnce ==
  /\ NVIC_PRIO_BITS <= 4
  /\ {"delay", "yield", "yield_other"} \cap Calls = {}
  /\ \A ms \in Timeouts : ms <= 0

\* At most four bits keep nothing of 14.
LEMMA NothingMasked ==
  ASSUME NVIC_PRIO_BITS <= 4, PlatformTypeOK
  PROVE  ~PendSVMasked
<1> USE DEF PlatformTypeOK, PendSVMasked, Masked, Implemented, BASEPRI_MASK_PENDSV_SYSTICK,
            BASEPRI_UNMASK_ALL, PriorityStep
<1>1. CASE NVIC_PRIO_BITS = 3
  <2>1. PriorityStep = 32
    BY <1>1
  <2> QED
    BY <2>1
<1>2. CASE NVIC_PRIO_BITS = 4
  <2>1. PriorityStep = 16
    BY <1>2
  <2> QED
    BY <2>1
<1> QED
  BY <1>1, <1>2, PrioBitsAssumption

-----------------------------------------------------------------------------
(***************************************************************************)
(* The invariant.  RunsHighest and OneRunning are about tasks outside the  *)
(* kernel; the invariant says what schedule() has established at each of   *)
(* its steps, and that only the current task is in the middle of one.      *)
(***************************************************************************)
NoTimers ==
  /\ delay_list = <<>>
  /\ \A t \in Tasks : pc[t] \notin {"delay_block", "queue_arm"}

IsHead(t) == HeadOf(ready_list[Priority[t]]) = t
NextTask(t) == IsNextTask(t, ready_list, ready_bitmap)

ReadyState == {"READY", "PREEMPTED", "RUNNING"}

\* The lists and the states agree, but for whom schedule() has blocked.
StatesFit ==
  /\ \A t \in Tasks : Ready(t) => task_state[t] \in ReadyState
  /\ \A t \in Tasks : ~Ready(t) => task_state[t] \in WaitingState \cup {"ABSENT"}
  /\ task_state[Idle] \in ReadyState
  /\ PreemptedKeepsHead

OnlyRunner(t) == \A u \in Tasks \cup {Idle} : task_state[u] = "RUNNING" => u = t

\* t is in possession of the processor and should be.  create_task may put a
\* task of a higher priority behind it.
Runs(t) ==
  /\ OnlyRunner(t) /\ task_state[t] = "RUNNING"
  /\ t = Idle => NextTask(t)
  /\ t # Idle => IsHead(t)
  /\ "create" \notin Calls => NextTask(t)

\* The caller of schedule(), until it is demoted: it may have blocked.
Caller(t) ==
  /\ OnlyRunner(t)
  /\ \/ task_state[t] = "RUNNING" /\ IsHead(t)
     \/ task_state[t] \in WaitingState

\* What schedule() knows at each of its steps.
InSchedule(t) ==
  /\ pc[t] \in {"sched_index", "sched_load", "sched_store"} => highest_prio_task_ptr = t
  /\ pc[t] = "sched_load" =>
       IF ready_bitmap = {} THEN idx[t] = IDLE_IDX
                            ELSE get_highest_bitmap_idx(ready_bitmap, idx[t])
  /\ pc[t] = "sched_store" => NextTask(picked[t])
  /\ pc[t] \in {"sched_check", "sched_current", "sched_match", "sched_preempt",
                "sched_commit", "sched_switch"} => NextTask(highest_prio_task_ptr)
  /\ pc[t] \in {"sched_check", "sched_current", "sched_match", "sched_preempt",
                "sched_commit"} => picked[t] = highest_prio_task_ptr
  /\ pc[t] \in {"sched_current", "sched_match", "sched_preempt", "sched_commit",
                "sched_switch"} => highest_prio_task_ptr # t
  /\ pc[t] \notin {"sched_commit", "sched_switch"} => Caller(t)
  /\ pc[t] = "sched_commit" => \A u \in Tasks \cup {Idle} : task_state[u] # "RUNNING"
  /\ pc[t] = "sched_switch" => OnlyRunner(highest_prio_task_ptr)
                            /\ task_state[highest_prio_task_ptr] = "RUNNING"

BeforeStart ==
  /\ curr_task_ptr = NoTask /\ ~pendsv
  /\ task_state[Idle] = "RUNNING" /\ OnlyRunner(Idle)

\* The kernel runs: a switch is requested, or the current task schedules, or it
\* runs on.
Running ==
  /\ curr_task_ptr # NoTask /\ highest_prio_task_ptr # NoTask
  /\ pendsv => /\ Runs(highest_prio_task_ptr)
               /\ curr_task_ptr \in Tasks => pc[curr_task_ptr] \in ReturnPC
  /\ ~pendsv => IF curr_task_ptr \in Tasks /\ pc[curr_task_ptr] \notin ReturnPC
                THEN InSchedule(curr_task_ptr)
                ELSE highest_prio_task_ptr = curr_task_ptr /\ Runs(curr_task_ptr)

SchedInv ==
  /\ StatesFit
  /\ \A t \in Tasks : t # curr_task_ptr => pc[t] \in ReturnPC
  /\ boot = "main" => BeforeStart
  /\ boot = "kernel" => Running

-----------------------------------------------------------------------------
(* Facts about the heads of the ready lists.                               *)

\* The head of a ready list is a ready task of its priority.
LEMMA HeadReady ==
  ASSUME TypeInv, LinkInv, NEW p \in Priorities, ready_list[p] # <<>>
  PROVE  LET t == HeadOf(ready_list[p])
         IN  t \in Tasks /\ t \in Indexable /\ Ready(t) /\ Priority[t] = p /\ IsHead(t)
<1> DEFINE t == HeadOf(ready_list[p])
<1>1. ready_list[p] \in Seq(Tasks) /\ IsInjective(ready_list[p])
  BY ListsOfTasks DEF LinkInv, ReadyLinked
<1>2. t = Head(ready_list[p]) /\ t \in Range(ready_list[p]) /\ t \in Tasks
  BY <1>1, TailElements, HeadTailProperties DEF HeadOf
<1>3. Priority[t] = p
  BY <1>2 DEF LinkInv, ReadyLinked
<1> QED
  BY <1>2, <1>3 DEF Ready, IsHead, Indexable

\* A task is at the head of its list only if it is in it.
LEMMA HeadInList ==
  ASSUME TypeInv, LinkInv, NEW t \in Indexable, IsHead(t)
  PROVE  ready_list[Priority[t]] # <<>> /\ Ready(t)
<1>1. Priority[t] \in Priorities /\ t # NoTask
  BY TasksAssumption DEF Indexable
<1>2. ready_list[Priority[t]] # <<>>
  BY <1>1 DEF IsHead, HeadOf
<1> QED
  BY <1>1, <1>2, HeadReady DEF IsHead

\* The choice of schedule() is a head or the idle task, and no NULL.
LEMMA NextTaskHead ==
  ASSUME TypeInv, LinkInv, ReadyBitmapExact, NEW t, NextTask(t)
  PROVE  \/ t = Idle /\ ready_bitmap = {}
         \/ t \in Tasks /\ t # Idle /\ t # NoTask /\ Ready(t) /\ IsHead(t)
<1>1. CASE \E p \in Priorities : p \in ready_bitmap /\ t = HeadOf(ready_list[p])
  BY <1>1, HeadReady, TasksAssumption DEF ReadyBitmapExact
<1> QED
  BY <1>1 DEF NextTask, IsNextTask, get_highest_bitmap_idx

\* What schedule() chooses is what a scheduler should choose.
LEMMA NextShouldRun ==
  ASSUME TypeInv, LinkInv, ReadyBitmapExact, NEW t, NextTask(t)
  PROVE  ShouldRun(t)
<1>1. ASSUME NEW u \in Tasks, Ready(u) PROVE Priority[u] \in ready_bitmap
  <2> PICK p \in Priorities : u \in Range(ready_list[p])
    BY <1>1 DEF Ready
  <2>1. Priority[u] = p /\ ready_list[p] # <<>>
    BY DEF LinkInv, ReadyLinked, Range
  <2> QED
    BY <2>1 DEF ReadyBitmapExact
<1>2. CASE t = Idle /\ ready_bitmap = {}
  BY <1>1, <1>2 DEF ShouldRun
<1>3. CASE t \in Tasks /\ t # Idle
  <2>1. Ready(t) /\ IsHead(t)
    BY <1>3, NextTaskHead
  <2>2. \A p \in ready_bitmap : p <= Priority[t]
    <3> PICK p \in Priorities : get_highest_bitmap_idx(ready_bitmap, p) /\ t = HeadOf(ready_list[p])
      BY <1>3 DEF NextTask, IsNextTask
    <3>1. Priority[t] = p
      BY HeadReady DEF ReadyBitmapExact, get_highest_bitmap_idx
    <3> QED
      BY <3>1 DEF get_highest_bitmap_idx
  <2> QED
    BY <1>1, <1>3, <2>1, <2>2 DEF ShouldRun, IsHead
<1> QED
  BY <1>2, <1>3, NextTaskHead

\* Who is at the head of a list stays there when a task joins at the tail.
LEMMA JoinKeepsHeads ==
  ASSUME TypeInv, LinkInv, NEW w \in Indexable, insert_into_ready_list(w),
         NEW t \in Indexable, IsHead(t)
  PROVE  IsHead(t)'
<1> DEFINE list == ready_list[Priority[t]]
<1>1. Priority[t] \in Priorities /\ list # <<>> /\ list \in Seq(Tasks) /\ w \in Tasks
  BY HeadInList, ListsOfTasks DEF Indexable
<1>2. Append(list, w) # <<>> /\ Head(Append(list, w)) = Head(list)
  BY <1>1, AppendProperties, HeadTailProperties, EmptySeq, LenProperties
<1>3. ready_list'[Priority[t]] = list \/ ready_list'[Priority[t]] = Append(list, w)
  BY <1>1 DEF insert_into_ready_list, TypeInv, ListTypeInv
<1> QED
  BY <1>1, <1>2, <1>3 DEF IsHead, HeadOf

\* A task that was not ready becomes READY.
LEMMA JoinFits ==
  ASSUME TypeInv, LinkInv, StatesFit, NEW w \in Indexable, ~Ready(w),
         insert_into_ready_list(w), task_state' = [task_state EXCEPT ![w] = "READY"]
  PROVE  /\ StatesFit'
         /\ task_state[w] # "RUNNING"
         /\ \A u \in Tasks \cup {Idle} : u # w => task_state'[u] = task_state[u]
         /\ \A u \in Tasks \cup {Idle} : OnlyRunner(u) => OnlyRunner(u)'
<1>1. w \in Tasks /\ w # Idle
  BY TasksAssumption DEF Indexable
<1>2. \A u \in Tasks \cup {Idle} : task_state'[u] = IF u = w THEN "READY" ELSE task_state[u]
  BY <1>1 DEF TypeInv, ListTypeInv
<1>3. \A u \in Tasks : Ready(u)' <=> Ready(u) \/ u = w
  BY InsertReadyLinks DEF LinkInv
<1>4. task_state[w] # "RUNNING"
  BY <1>1 DEF StatesFit, WaitingState
<1>5. ASSUME NEW u \in Tasks, task_state'[u] = "PREEMPTED" PROVE IsHead(u)'
  <2>1. task_state[u] = "PREEMPTED"
    BY <1>2, <1>5
  <2>2. IsHead(u)
    BY <2>1 DEF StatesFit, PreemptedKeepsHead, IsHead
  <2>3. Ready(u)
    BY <2>1 DEF StatesFit, WaitingState
  <2>4. u \in Indexable
    BY <2>3 DEF Ready, Indexable, LinkInv, ReadyLinked
  <2> QED
    BY <2>2, <2>4, JoinKeepsHeads
<1>6. PreemptedKeepsHead'
  BY <1>5 DEF PreemptedKeepsHead, IsHead
<1>7. StatesFit'
  BY <1>1, <1>2, <1>3, <1>6 DEF StatesFit, ReadyState
<1>8. \A u \in Tasks \cup {Idle} : OnlyRunner(u) => OnlyRunner(u)'
  BY <1>2 DEF OnlyRunner
<1> QED
  BY <1>2, <1>4, <1>7, <1>8

\* Nothing moves in the ready lists.
LEMMA SameLists ==
  ASSUME UNCHANGED <<ready_list, ready_bitmap>>
  PROVE  \A t : /\ Ready(t)' <=> Ready(t)
                /\ NextTask(t)' <=> NextTask(t)
                /\ IsHead(t)' <=> IsHead(t)
BY DEF Ready, NextTask, IsNextTask, IsHead

LEMMA SameStates ==
  ASSUME UNCHANGED <<task_state, ready_list, ready_bitmap>>
  PROVE  /\ StatesFit => StatesFit'
         /\ \A t : Runs(t) => Runs(t)'
         /\ \A t : Caller(t) => Caller(t)'
         /\ \A t : OnlyRunner(t) => OnlyRunner(t)'
BY SameLists DEF StatesFit, PreemptedKeepsHead, Ready, Runs, Caller, OnlyRunner

-----------------------------------------------------------------------------
(* The steps of schedule().                                                *)

\* A task executes only when no switch is requested.
LEMMA ExecutingRuns ==
  ASSUME SwitchesAtOnce, TypeInv, SchedInv, NEW t \in Tasks, Executing(t)
  PROVE  /\ curr_task_ptr = t /\ ~pendsv /\ boot = "kernel" /\ t # Idle /\ t \in Indexable
         /\ highest_prio_task_ptr # NoTask
         /\ pc[t] \in ReturnPC => highest_prio_task_ptr = t /\ Runs(t) /\ Caller(t)
         /\ pc[t] \notin ReturnPC => InSchedule(t)
<1>1. curr_task_ptr = t /\ ~pendsv /\ boot = "kernel"
  BY NothingMasked DEF SwitchesAtOnce, TypeInv, Executing, Alive
<1>2. t # Idle /\ t # NoTask /\ t \in Indexable
  BY <1>1, TasksAssumption DEF TypeInv, ListTypeInv, Pointer
<1>3. Running
  BY <1>1 DEF SchedInv
<1> QED
  BY <1>1, <1>2, <1>3 DEF Running, Runs, Caller

\* The current task goes on in the kernel.
LEMMA GoesOn ==
  ASSUME TypeInv, TypeInv', SchedInv, NEW t \in Tasks, curr_task_ptr = t, boot = "kernel",
         ~pendsv, UNCHANGED <<curr_task_ptr, boot, pendsv>>, StatesFit',
         highest_prio_task_ptr' # NoTask,
         \A u \in Tasks : u # t => pc'[u] = pc[u],
         pc'[t] \in ReturnPC => highest_prio_task_ptr' = t /\ Runs(t)',
         pc'[t] \notin ReturnPC => InSchedule(t)'
  PROVE  SchedInv'
<1>1. \A u \in Tasks : u # curr_task_ptr' => pc'[u] \in ReturnPC
  BY DEF SchedInv
<1>2. t # NoTask
  BY TasksAssumption
<1>3. Running'
  <2>1. CASE pc'[t] \in ReturnPC
    <3>1. highest_prio_task_ptr' = curr_task_ptr' /\ curr_task_ptr' = t
      BY <2>1
    <3>2. Runs(curr_task_ptr)'
      BY <2>1, <3>1 DEF Runs, OnlyRunner, NextTask, IsNextTask, IsHead
    <3> QED
      BY <1>2, <2>1, <3>1, <3>2 DEF Running
  <2>2. CASE pc'[t] \notin ReturnPC
    <3>1. InSchedule(curr_task_ptr)'
      BY <2>2 DEF InSchedule, Caller, OnlyRunner, IsHead
    <3> QED
      BY <1>2, <2>2, <3>1 DEF Running
  <2> QED
    BY <2>1, <2>2
<1> QED
  BY <1>1, <1>3 DEF SchedInv

LEMMA ScheduleRuns ==
  ASSUME SwitchesAtOnce, TypeInv, TypeInv', LinkInv, ReadyBitmapExact, SchedInv,
         NEW t \in Tasks, Schedule(t)
  PROVE  SchedInv'
<1> USE DEF listVars, platformVars, SchedPC, ReturnPC
<1>1. /\ Executing(t) /\ pc[t] \in SchedPC
      /\ UNCHANGED <<ready_list, ready_bitmap, curr_task_ptr, boot>>
  BY DEF Schedule, SchedIndex, SchedLoad, SchedStore, SchedCheck, SchedCurrent, SchedMatch,
         SchedPreempt, SchedCommit, SchedSwitch, At
<1>2. /\ curr_task_ptr = t /\ ~pendsv /\ boot = "kernel" /\ t # Idle /\ t \in Indexable
      /\ highest_prio_task_ptr # NoTask /\ InSchedule(t) /\ StatesFit
  BY <1>1, ExecutingRuns DEF SchedInv
<1>3. /\ pc \in [Tasks -> PC] /\ idx \in [Tasks -> Priorities \cup {IDLE_IDX}]
      /\ picked \in [Tasks -> Pointer] /\ ret \in [Tasks -> ReturnPC]
      /\ task_state \in [Tasks \cup {Idle} -> TaskState]
  BY DEF TypeInv, SchedTypeOK, ListTypeInv
<1>4. CASE SchedIndex(t)
  <2>1. /\ pc[t] = "sched_index" /\ pc' = [pc EXCEPT ![t] = "sched_load"]
        /\ UNCHANGED <<task_state, highest_prio_task_ptr, pendsv>>
    BY <1>4 DEF SchedIndex, At, Goto
  <2>2. IF ready_bitmap = {} THEN idx'[t] = IDLE_IDX
                             ELSE get_highest_bitmap_idx(ready_bitmap, idx'[t])
    BY <1>3, <1>4 DEF SchedIndex
  <2>3. StatesFit' /\ Caller(t)'
    BY <1>1, <1>2, <2>1, SameStates DEF InSchedule
  <2>4. InSchedule(t)'
    BY <1>1, <1>2, <1>3, <2>1, <2>2, <2>3 DEF InSchedule, get_highest_bitmap_idx
  <2> QED
    BY <1>1, <1>2, <1>3, <2>1, <2>3, <2>4, GoesOn
<1>5. CASE SchedLoad(t)
  <2>1. /\ pc[t] = "sched_load" /\ pc' = [pc EXCEPT ![t] = "sched_store"]
        /\ UNCHANGED <<task_state, highest_prio_task_ptr, pendsv>>
        /\ picked'[t] = IF idx[t] = IDLE_IDX THEN Idle ELSE HeadOf(ready_list[idx[t]])
    BY <1>3, <1>5 DEF SchedLoad, At, Goto
  <2>2. NextTask(picked'[t])
    <3>1. IF ready_bitmap = {} THEN idx[t] = IDLE_IDX
                               ELSE get_highest_bitmap_idx(ready_bitmap, idx[t])
      BY <1>2, <2>1 DEF InSchedule
    <3>2. ASSUME ready_bitmap # {} PROVE idx[t] \in Priorities /\ idx[t] # IDLE_IDX
      <4>1. idx[t] \in Priorities
        BY <3>1, <3>2 DEF get_highest_bitmap_idx, TypeInv, ListTypeInv
      <4> QED
        BY <4>1, TasksAssumption DEF Priorities, IDLE_IDX
    <3> QED
      BY <2>1, <3>1, <3>2 DEF NextTask, IsNextTask
  <2>3. StatesFit' /\ Caller(t)'
    BY <1>1, <1>2, <2>1, SameStates DEF InSchedule
  <2>4. InSchedule(t)'
    BY <1>1, <1>2, <1>3, <2>1, <2>2, <2>3 DEF InSchedule, NextTask, IsNextTask
  <2> QED
    BY <1>1, <1>2, <1>3, <2>1, <2>3, <2>4, GoesOn
<1>6. CASE SchedStore(t)
  <2>1. /\ pc[t] = "sched_store" /\ pc' = [pc EXCEPT ![t] = "sched_check"]
        /\ UNCHANGED <<task_state, picked, pendsv>> /\ highest_prio_task_ptr' = picked[t]
    BY <1>3, <1>6 DEF SchedStore, At, Goto
  <2>2. NextTask(picked[t])
    BY <1>2, <2>1 DEF InSchedule
  <2>3. StatesFit' /\ Caller(t)'
    BY <1>1, <1>2, <2>1, SameStates DEF InSchedule
  <2>4. InSchedule(t)'
    BY <1>1, <1>3, <2>1, <2>2, <2>3 DEF InSchedule, NextTask, IsNextTask
  <2>5. picked[t] # NoTask
    BY <2>2, NextTaskHead, TasksAssumption
  <2> QED
    BY <1>1, <1>2, <1>3, <2>1, <2>3, <2>4, <2>5, GoesOn
<1>7. CASE SchedCheck(t)
  <2>1. /\ pc[t] = "sched_check" /\ UNCHANGED <<task_state, highest_prio_task_ptr, pendsv>>
        /\ NextTask(highest_prio_task_ptr) /\ picked[t] = highest_prio_task_ptr /\ Caller(t)
    BY <1>2, <1>7 DEF SchedCheck, At, InSchedule
  <2>2. /\ StatesFit' /\ Caller(t)'
        /\ \A u : NextTask(u)' <=> NextTask(u)
    BY <1>1, <1>2, <2>1, SameStates, SameLists
  <2>3. CASE Runnable(task_state, highest_prio_task_ptr)
    <3>1. /\ pc' = [pc EXCEPT ![t] = "sched_current"]
          /\ picked'[t] = highest_prio_task_ptr
      BY <1>3, <1>7, <2>1, <2>3 DEF SchedCheck, Goto
    <3>2. highest_prio_task_ptr # t
      BY <2>1, <2>3 DEF Runnable, Caller, WaitingState
    <3>3. InSchedule(t)'
      BY <1>1, <1>3, <2>1, <2>2, <3>1, <3>2 DEF InSchedule, NextTask, IsNextTask
    <3> QED
      BY <1>1, <1>2, <1>3, <2>1, <2>2, <3>1, <3>3, GoesOn
  <2>4. CASE ~Runnable(task_state, highest_prio_task_ptr)
    <3>1. ReturnFromSchedule(t)
      BY <1>7, <2>1, <2>4 DEF SchedCheck
    <3>2. pc' = [pc EXCEPT ![t] = ret[t]]
      BY <3>1 DEF ReturnFromSchedule
    <3>3. /\ highest_prio_task_ptr \in Tasks \cup {Idle}
          /\ task_state[highest_prio_task_ptr] \in ReadyState
      BY <1>2, <2>1, NextTaskHead DEF StatesFit
    <3>4. task_state[highest_prio_task_ptr] = "RUNNING"
      BY <1>2, <2>4, <3>3 DEF Runnable, ReadyState
    <3>5. highest_prio_task_ptr = t
      BY <2>1, <3>3, <3>4 DEF Caller, OnlyRunner
    <3>6. Runs(t)
      BY <1>2, <2>1, <3>4, <3>5 DEF Runs, Caller, WaitingState
    <3>7. Runs(t)'
      BY <1>1, <2>1, <3>6, SameStates
    <3> QED
      BY <1>1, <1>2, <1>3, <2>1, <2>2, <3>2, <3>5, <3>7, GoesOn
  <2> QED
    BY <2>3, <2>4
<1>8. CASE SchedCurrent(t) \/ SchedMatch(t)
  <2>1. /\ pc[t] \in {"sched_current", "sched_match"}
        /\ UNCHANGED <<task_state, highest_prio_task_ptr, pendsv>>
    BY <1>8 DEF SchedCurrent, SchedMatch, At
  <2>2. /\ NextTask(highest_prio_task_ptr) /\ picked[t] = highest_prio_task_ptr /\ Caller(t)
        /\ highest_prio_task_ptr # t
    BY <1>2, <2>1 DEF InSchedule
  <2>3. /\ pc' = [pc EXCEPT ![t] = IF pc[t] = "sched_current" THEN "sched_match"
                                                            ELSE "sched_preempt"]
        /\ UNCHANGED picked
    BY <1>2, <1>8, <2>2 DEF SchedCurrent, SchedMatch, At, Goto
  <2>4. StatesFit' /\ Caller(t)'
    BY <1>1, <1>2, <2>1, <2>2, SameStates
  <2>5. InSchedule(t)'
    BY <1>1, <1>3, <2>1, <2>2, <2>3, <2>4 DEF InSchedule, NextTask, IsNextTask
  <2> QED
    BY <1>1, <1>2, <1>3, <2>1, <2>3, <2>4, <2>5, GoesOn
<1>9. CASE SchedPreempt(t)
  <2>1. /\ pc[t] = "sched_preempt" /\ pc' = [pc EXCEPT ![t] = "sched_commit"]
        /\ UNCHANGED <<picked, highest_prio_task_ptr, pendsv>>
        /\ task_state' = PreemptCurrent(task_state, t)
    BY <1>2, <1>9 DEF SchedPreempt, At, Goto
  <2>2. /\ NextTask(highest_prio_task_ptr) /\ picked[t] = highest_prio_task_ptr
        /\ highest_prio_task_ptr # t
        /\ OnlyRunner(t) /\ (task_state[t] = "RUNNING" => IsHead(t))
    BY <1>2, <2>1 DEF InSchedule, Caller, WaitingState
  <2>3. \A u \in Tasks \cup {Idle} :
          task_state'[u] = IF u = t /\ task_state[u] = "RUNNING" THEN "PREEMPTED"
                                                                ELSE task_state[u]
    BY <1>3, <2>1 DEF PreemptCurrent
  <2>4. \A u \in Tasks \cup {Idle} : task_state'[u] # "RUNNING"
    BY <2>2, <2>3 DEF OnlyRunner
  <2>5. \A u \in Tasks : task_state'[u] = "PREEMPTED" => IsHead(u)
    BY <1>2, <2>2, <2>3 DEF StatesFit, PreemptedKeepsHead, IsHead
  <2>6. \A u : (Ready(u)' <=> Ready(u)) /\ (IsHead(u)' <=> IsHead(u))
    BY <1>1, SameLists
  <2>7. PreemptedKeepsHead'
    BY <2>5, <2>6 DEF PreemptedKeepsHead, IsHead
  <2>8. StatesFit'
    BY <1>2, <2>3, <2>6, <2>7 DEF StatesFit, ReadyState, WaitingState
  <2>9. InSchedule(t)'
    BY <1>1, <1>3, <2>1, <2>2, <2>4 DEF InSchedule, NextTask, IsNextTask
  <2> QED
    BY <1>1, <1>2, <1>3, <2>1, <2>8, <2>9, GoesOn
<1>10. CASE SchedCommit(t)
  <2> DEFINE h == highest_prio_task_ptr
  <2>1. /\ pc[t] = "sched_commit" /\ pc' = [pc EXCEPT ![t] = "sched_switch"]
        /\ UNCHANGED <<highest_prio_task_ptr, pendsv>>
        /\ task_state' = [task_state EXCEPT ![picked[t]] = "RUNNING"]
    BY <1>10 DEF SchedCommit, At, Goto
  <2>2. /\ NextTask(h) /\ picked[t] = h /\ h # t
        /\ \A u \in Tasks \cup {Idle} : task_state[u] # "RUNNING"
    BY <1>2, <2>1 DEF InSchedule
  <2>3. h = Idle \/ (h \in Tasks /\ Ready(h))
    BY <2>2, NextTaskHead
  <2>4. \A u \in Tasks \cup {Idle} : task_state'[u] = IF u = h THEN "RUNNING" ELSE task_state[u]
    BY <1>3, <2>1, <2>2, <2>3
  <2>5. \A u : (Ready(u)' <=> Ready(u)) /\ (IsHead(u)' <=> IsHead(u))
    BY <1>1, SameLists
  <2>6. PreemptedKeepsHead'
    BY <1>2, <2>4, <2>5 DEF StatesFit, PreemptedKeepsHead, IsHead
  <2>7. StatesFit'
    BY <1>2, <2>3, <2>4, <2>5, <2>6, TasksAssumption DEF StatesFit, ReadyState
  <2>8. InSchedule(t)'
    BY <1>1, <1>3, <2>1, <2>2, <2>3, <2>4 DEF InSchedule, NextTask, IsNextTask, OnlyRunner
  <2> QED
    BY <1>1, <1>2, <1>3, <2>1, <2>7, <2>8, GoesOn
<1>11. CASE SchedSwitch(t)
  <2>1. /\ pc[t] = "sched_switch" /\ pc' = [pc EXCEPT ![t] = ret[t]]
        /\ UNCHANGED <<highest_prio_task_ptr, task_state>>
    BY <1>11 DEF SchedSwitch, At, ReturnFromSchedule
  <2>2. /\ NextTask(highest_prio_task_ptr) /\ highest_prio_task_ptr # t
        /\ OnlyRunner(highest_prio_task_ptr) /\ task_state[highest_prio_task_ptr] = "RUNNING"
    BY <1>2, <2>1 DEF InSchedule
  <2>3. Runs(highest_prio_task_ptr)
    BY <2>2, NextTaskHead DEF Runs
  <2>4. pendsv' = TRUE
    BY <1>2, <1>11, <2>2 DEF SchedSwitch, context_switch
  <2>5. Runs(highest_prio_task_ptr)'
    BY <1>1, <2>1, <2>3 DEF Runs, OnlyRunner, NextTask, IsNextTask, IsHead
  <2>6. StatesFit'
    BY <1>1, <1>2, <2>1, SameStates
  <2>7. \A u \in Tasks : pc'[u] \in ReturnPC
    BY <1>2, <1>3, <2>1 DEF SchedInv
  <2> QED
    BY <1>1, <1>2, <2>1, <2>4, <2>5, <2>6, <2>7, TasksAssumption DEF SchedInv, Running
<1> QED
  BY <1>4, <1>5, <1>6, <1>7, <1>8, <1>9, <1>10, <1>11 DEF Schedule

-----------------------------------------------------------------------------
(* The other steps, by what they do to the lists and to who is where.      *)

\* A call, or a part of one, that makes nobody ready and blocks nobody.
QuietCall ==
  /\ UNCHANGED <<pendsv, listVars, boot, idx, picked>>
  /\ \/ UNCHANGED pc
     \/ \E t \in Tasks, label \in {"user", "sched_index"} :
          Executing(t) /\ pc[t] \in ReturnPC /\ Goto(t, label)

\* A task calls schedule() and has changed the lists before.
CallsScheduler(t) ==
  /\ Executing(t) /\ pc[t] \in ReturnPC /\ Goto(t, "sched_index")
  /\ UNCHANGED <<pendsv, curr_task_ptr, highest_prio_task_ptr, boot, idx, picked>>

BlockingCall ==
  \E t \in Tasks, l \in BlockedLists, state \in WaitingState :
    CallsScheduler(t) /\ BlockIn(t, l, state)

WakingCall ==
  \E t \in Tasks, l \in BlockedLists :
    CallsScheduler(t) /\ blocked_list[l] # <<>> /\ WakeHead(l)

LEMMA QuietCallRuns ==
  ASSUME SwitchesAtOnce, TypeInv, TypeInv', SchedInv, QuietCall
  PROVE  SchedInv'
<1> USE DEF QuietCall, listVars
<1>1. CASE UNCHANGED pc
  <2>1. StatesFit'
    BY SameStates DEF SchedInv
  <2>2. BeforeStart => BeforeStart'
    BY DEF BeforeStart, OnlyRunner
  <2>3. Running => Running'
    BY <1>1 DEF Running, Runs, InSchedule, Caller, OnlyRunner, NextTask, IsNextTask, IsHead,
                get_highest_bitmap_idx
  <2> QED
    BY <1>1, <2>1, <2>2, <2>3 DEF SchedInv
<1>2. ASSUME NEW t \in Tasks, NEW label \in {"user", "sched_index"},
             Executing(t), pc[t] \in ReturnPC, Goto(t, label)
      PROVE  SchedInv'
  <2>1. /\ curr_task_ptr = t /\ ~pendsv /\ boot = "kernel" /\ highest_prio_task_ptr # NoTask
        /\ highest_prio_task_ptr = t /\ Runs(t) /\ Caller(t)
    BY <1>2, ExecutingRuns
  <2>2. StatesFit' /\ Runs(t)' /\ Caller(t)'
    BY <2>1, SameStates DEF SchedInv
  <2>3. pc'[t] = label /\ \A u \in Tasks : u # t => pc'[u] = pc[u]
    BY <1>2 DEF Goto, TypeInv, SchedTypeOK
  <2>4. pc'[t] \notin ReturnPC => InSchedule(t)'
    BY <2>1, <2>2, <2>3 DEF ReturnPC, InSchedule
  <2> QED
    BY <2>1, <2>2, <2>3, <2>4, GoesOn
<1> QED
  BY <1>1, <1>2

\* The caller is at sched_index and may be there.
LEMMA SchedulerCalled ==
  ASSUME SwitchesAtOnce, TypeInv, TypeInv', SchedInv, NEW t \in Tasks, CallsScheduler(t),
         StatesFit', Caller(t)'
  PROVE  SchedInv'
<1>1. /\ curr_task_ptr = t /\ ~pendsv /\ boot = "kernel" /\ highest_prio_task_ptr # NoTask
      /\ highest_prio_task_ptr = t
  BY ExecutingRuns DEF CallsScheduler
<1>2. pc'[t] = "sched_index" /\ \A u \in Tasks : u # t => pc'[u] = pc[u]
  BY DEF CallsScheduler, Goto, TypeInv, SchedTypeOK
<1>3. UNCHANGED <<curr_task_ptr, boot, pendsv, highest_prio_task_ptr>>
  BY DEF CallsScheduler
<1>4. InSchedule(t)'
  BY <1>1, <1>2, <1>3 DEF InSchedule
<1> QED
  BY <1>1, <1>2, <1>3, <1>4, GoesOn DEF ReturnPC

\* The task behind the caller in its list moves up; nobody there is preempted.
LEMMA BlockingRuns ==
  ASSUME SwitchesAtOnce, TypeInv, TypeInv', LinkInv, SchedInv, BlockingCall
  PROVE  SchedInv'
<1> PICK t \in Tasks, l \in BlockedLists, state \in WaitingState :
      CallsScheduler(t) /\ BlockIn(t, l, state)
  BY DEF BlockingCall
<1>1. Executing(t) /\ pc[t] \in ReturnPC
  BY DEF CallsScheduler
<1>2. /\ curr_task_ptr = t /\ t # Idle /\ t \in Indexable
      /\ Runs(t) /\ StatesFit
  BY <1>1, ExecutingRuns DEF SchedInv
<1>3. Ready(t) /\ \A u \in Tasks : Ready(u)' <=> Ready(u) /\ u # t
  BY <1>1, BlockerReady
<1>4. \A u \in Tasks \cup {Idle} : task_state'[u] = IF u = t THEN state ELSE task_state[u]
  BY DEF BlockIn, TypeInv, ListTypeInv
<1>5. ASSUME NEW u \in Tasks, task_state'[u] = "PREEMPTED" PROVE IsHead(u)'
  <2>1. u # t /\ task_state[u] = "PREEMPTED"
    BY <1>4, <1>5 DEF WaitingState
  <2>2. IsHead(u) /\ IsHead(t)
    BY <1>2, <2>1 DEF StatesFit, PreemptedKeepsHead, IsHead, Runs
  <2>3. Priority[u] # Priority[t]
    BY <2>1, <2>2 DEF IsHead
  <2>4. ready_list'[Priority[u]] = ready_list[Priority[u]]
    BY <2>3 DEF BlockIn, remove_from_ready_list, TypeInv, ListTypeInv
  <2> QED
    BY <2>2, <2>4 DEF IsHead
<1>6. PreemptedKeepsHead'
  BY <1>5 DEF PreemptedKeepsHead, IsHead
<1>7. StatesFit'
  BY <1>2, <1>3, <1>4, <1>6 DEF StatesFit
<1>8. Caller(t)'
  BY <1>2, <1>4 DEF Runs, OnlyRunner, Caller, WaitingState
<1> QED
  BY <1>7, <1>8, SchedulerCalled

LEMMA WakingRuns ==
  ASSUME SwitchesAtOnce, TypeInv, TypeInv', LinkInv, SchedInv, WakingCall
  PROVE  SchedInv'
<1> PICK t \in Tasks, l \in BlockedLists :
      CallsScheduler(t) /\ blocked_list[l] # <<>> /\ WakeHead(l)
  BY DEF WakingCall
<1> DEFINE waiter == Head(blocked_list[l])
<1>1. /\ waiter \in Indexable /\ ~Ready(waiter)
      /\ insert_into_ready_list(waiter)
      /\ task_state' = [task_state EXCEPT ![waiter] = "READY"]
  BY WakeableWaits DEF WakeHead
<1> HIDE DEF waiter
<1>2. /\ t # Idle /\ t \in Indexable /\ Runs(t) /\ StatesFit
  BY ExecutingRuns DEF SchedInv, CallsScheduler
<1>3. /\ StatesFit' /\ OnlyRunner(t)' /\ t # waiter /\ task_state'[t] = "RUNNING"
  BY <1>1, <1>2, JoinFits DEF Runs
<1>4. IsHead(t)'
  BY <1>1, <1>2, JoinKeepsHeads DEF Runs
<1> QED
  BY <1>3, <1>4, SchedulerCalled DEF Caller

\* create_task, by main or by the current task, which goes on.
LEMMA CreateRuns ==
  ASSUME SwitchesAtOnce, TypeInv, TypeInv', LinkInv, SchedInv, NEW u \in Tasks, CreateTask(u)
  PROVE  SchedInv'
<1>1. UNCHANGED <<pendsv, curr_task_ptr, highest_prio_task_ptr, pc, boot, idx, picked>>
  BY DEF CreateTask
<1>2. CASE Priority[u] \notin Priorities
  <2>1. UNCHANGED <<task_state, ready_list, ready_bitmap>>
    BY <1>2 DEF CreateTask
  <2> QED
    BY <1>1, <2>1, QuietCallRuns DEF QuietCall, listVars
<1>3. CASE Priority[u] \in Priorities
  <2>1. /\ u \in Indexable /\ u \notin task_list /\ insert_into_ready_list(u)
        /\ task_state' = [task_state EXCEPT ![u] = "READY"]
    BY <1>3 DEF CreateTask, is_task_createable, Indexable
  <2>2. ~Ready(u) /\ u # Idle
    BY <2>1, TasksAssumption DEF LinkInv, StateLinked
  <2>3. StatesFit
    BY DEF SchedInv
  <2>4. /\ StatesFit' /\ task_state'[Idle] = task_state[Idle] /\ task_state[u] # "RUNNING"
        /\ \A v \in Tasks \cup {Idle} : v # u => task_state'[v] = task_state[v]
        /\ \A v \in Tasks \cup {Idle} : OnlyRunner(v) => OnlyRunner(v)'
    BY <2>1, <2>2, <2>3, JoinFits
  <2>5. CASE boot = "main"
    <3>1. BeforeStart
      BY <2>5 DEF SchedInv
    <3>2. BeforeStart'
      BY <1>1, <2>4, <3>1 DEF BeforeStart
    <3> QED
      BY <1>1, <2>4, <2>5, <3>2 DEF SchedInv
  <2>6. CASE boot # "main"
    <3> PICK t \in Tasks : "create" \in Calls /\ Executing(t) /\ pc[t] = "user"
      BY <2>6 DEF CreateTask, Creator, Calling, At
    <3>1. /\ curr_task_ptr = t /\ ~pendsv /\ boot = "kernel" /\ t # Idle /\ t \in Indexable
          /\ highest_prio_task_ptr # NoTask /\ highest_prio_task_ptr = t /\ Runs(t)
      BY ExecutingRuns DEF ReturnPC
    <3>2. OnlyRunner(t)' /\ t # u /\ task_state'[t] = "RUNNING"
      BY <2>4, <3>1 DEF Runs
    <3>3. IsHead(t)'
      BY <2>1, <3>1, JoinKeepsHeads DEF Runs
    <3>4. Runs(t)'
      BY <3>1, <3>2, <3>3 DEF Runs
    <3> QED
      BY <1>1, <2>4, <3>1, <3>4, GoesOn DEF ReturnPC
  <2> QED
    BY <2>5, <2>6
<1> QED
  BY <1>2, <1>3

LEMMA PendSVRuns ==
  ASSUME TypeInv, SchedInv, PendSV
  PROVE  SchedInv'
<1>1. /\ boot = "kernel" /\ pendsv /\ ~pendsv' /\ curr_task_ptr' = highest_prio_task_ptr
      /\ UNCHANGED <<task_state, ready_list, ready_bitmap, highest_prio_task_ptr, pc, boot>>
  BY DEF PendSV, Alive, schedVars
<1>2. /\ Running /\ highest_prio_task_ptr # NoTask /\ Runs(highest_prio_task_ptr)
      /\ \A t \in Tasks : pc[t] \in ReturnPC
  BY <1>1 DEF SchedInv, Running
<1>3. Runs(curr_task_ptr)'
  BY <1>1, <1>2 DEF Runs, OnlyRunner, NextTask, IsNextTask, IsHead
<1>4. StatesFit'
  BY <1>1, SameStates DEF SchedInv
<1> QED
  BY <1>1, <1>2, <1>3, <1>4 DEF SchedInv, Running

LEMMA StartRuns ==
  ASSUME TypeInv, LinkInv, ReadyBitmapExact, SchedInv, StartKernel
  PROVE  SchedInv'
<1> USE DEF TypeInv, ListTypeInv
<1>1. /\ boot = "main" /\ curr_task_ptr' = Idle /\ UNCHANGED <<ready_list, ready_bitmap, pc>>
      /\ boot' = IF ready_bitmap = {} THEN "returned" ELSE "kernel"
  BY DEF StartKernel
<1>2. /\ BeforeStart /\ StatesFit
      /\ \A t \in Tasks : pc[t] \in ReturnPC
  BY <1>1, TasksAssumption DEF SchedInv, BeforeStart
<1>3. [task_state EXCEPT ![Idle] = "RUNNING"] = task_state
  BY <1>2 DEF BeforeStart
<1> PICK t \in TaskPtr :
      /\ IsNextTask(t, ready_list', ready_bitmap')
      /\ highest_prio_task_ptr' = t
      /\ IF ready_to_running(task_state, Idle, t, t)
         THEN /\ task_state' = [PreemptCurrent(task_state, Idle) EXCEPT ![t] = "RUNNING"]
              /\ context_switch
         ELSE task_state' = task_state /\ UNCHANGED pendsv
  BY <1>3 DEF StartKernel, ScheduleNow
<1>4. NextTask(t)
  BY <1>1 DEF NextTask
<1>5. CASE ready_bitmap = {}
  <2>1. t = Idle
    BY <1>4, <1>5, NextTaskHead DEF NextTask, IsNextTask, get_highest_bitmap_idx
  <2>2. UNCHANGED task_state
    BY <2>1 DEF ready_to_running
  <2>3. StatesFit'
    BY <1>1, <1>2, <2>2, SameStates
  <2> QED
    BY <1>1, <1>2, <1>5, <2>3 DEF SchedInv
<1>6. CASE ready_bitmap # {}
  <2>1. t \in Tasks /\ t # Idle /\ t # NoTask /\ Ready(t) /\ IsHead(t)
    BY <1>4, <1>6, NextTaskHead
  <2>2. ready_to_running(task_state, Idle, t, t)
    BY <1>2, <2>1 DEF ready_to_running, Runnable, BeforeStart, OnlyRunner, StatesFit, ReadyState
  <2>3. \A u \in Tasks \cup {Idle} :
          task_state'[u] = IF u = t THEN "RUNNING" ELSE IF u = Idle THEN "PREEMPTED"
                                                                     ELSE task_state[u]
    BY <1>2, <2>1, <2>2 DEF PreemptCurrent, BeforeStart
  <2>4. pendsv' = TRUE
    BY <2>2 DEF context_switch
  <2>5. \A u : /\ Ready(u)' <=> Ready(u)
               /\ NextTask(u)' <=> NextTask(u)
               /\ IsHead(u)' <=> IsHead(u)
    BY <1>1, SameLists
  <2>6. PreemptedKeepsHead'
    BY <1>2, <2>1, <2>3, <2>5, TasksAssumption DEF StatesFit, PreemptedKeepsHead, IsHead
  <2>7. StatesFit'
    BY <1>2, <2>1, <2>3, <2>5, <2>6, TasksAssumption DEF StatesFit, ReadyState
  <2>8. OnlyRunner(t)'
    BY <1>2, <2>3 DEF BeforeStart, OnlyRunner
  <2>9. Runs(t)'
    BY <1>4, <2>1, <2>3, <2>5, <2>8 DEF Runs
  <2>10. Runs(highest_prio_task_ptr)'
    BY <2>9 DEF Runs, OnlyRunner, NextTask, IsNextTask, IsHead
  <2>11. Running'
    BY <1>1, <2>1, <2>4, <2>10, TasksAssumption DEF Running
  <2> QED
    BY <1>1, <1>2, <1>6, <2>7, <2>11 DEF SchedInv
<1> QED
  BY <1>5, <1>6

-----------------------------------------------------------------------------
(* Every step is one of these, and none arms a timer.                      *)

LEMMA NotifyKinds ==
  ASSUME NoTimers, NEW t \in Tasks, NEW l \in BlockedLists, Executing(t), pc[t] \in ReturnPC,
         Notify(t, l), UNCHANGED boot
  PROVE  (QuietCall \/ WakingCall) /\ UNCHANGED delay_list
<1>1. CASE Awaited(l) /\ Wakeable(l)
  <2>1. CallsScheduler(t) /\ blocked_list[l] # <<>> /\ WakeHead(l)
    BY <1>1 DEF Notify, CallsScheduler, CallSchedule, Awaited
  <2>2. UNCHANGED delay_list
    BY <1>1 DEF Notify, clear_timer, HasTimer, NoTimers, timerVars
  <2> QED
    BY <2>1, <2>2 DEF WakingCall
<1>2. CASE ~(Awaited(l) /\ Wakeable(l))
  BY <1>2 DEF Notify, QuietCall, listVars, timerVars
<1> QED
  BY <1>1, <1>2

LEMMA ReturnFalseKind ==
  ASSUME NEW t \in Tasks, Executing(t), pc[t] \in ReturnPC, ReturnFalse(t)
  PROVE  QuietCall /\ UNCHANGED delay_list
BY DEF ReturnFalse, QuietCall, timerVars

LEMMA SemaphoreKinds ==
  ASSUME SemaphoreStep
  PROVE  (QuietCall \/ BlockingCall \/ WakingCall) /\ UNCHANGED delay_list
<1> USE DEF schedVars, ReturnPC
<1>1. UNCHANGED delay_list
  BY DEF SemaphoreStep, timerVars
<1>2. ASSUME NEW s \in Semaphores, NEW v \in InitialCounts,
             CreateSemaphore(s, v) \/ CreateSemaphoreRefused(s)
      PROVE  QuietCall
  BY <1>2 DEF CreateSemaphore, CreateSemaphoreRefused, QuietCall
<1>3. ASSUME NEW t \in Tasks, NEW s \in Semaphores,
             PostCount(t, s) \/ PostRefused(t, s) \/ WaitTake(t, s) \/ WaitRefused(t, s)
      PROVE  QuietCall
  BY <1>3 DEF PostCount, PostRefused, WaitTake, WaitRefused, Calling, At, CallSchedule, QuietCall
<1>4. ASSUME NEW t \in Tasks, NEW s \in Semaphores, PostWake(t, s)
      PROVE  WakingCall
  BY <1>4, WaitListKnown DEF PostWake, Calling, At, CallSchedule, CallsScheduler, WakingCall
<1>5. ASSUME NEW t \in Tasks, NEW s \in Semaphores, WaitBlock(t, s)
      PROVE  BlockingCall
  BY <1>5, WaitListKnown
  DEF WaitBlock, Calling, At, CallSchedule, CallsScheduler, BlockingCall, WaitingState
<1>6. ASSUME NEW s \in Semaphores, CreateSemaphoreRefused(s) PROVE QuietCall
  BY <1>6 DEF CreateSemaphoreRefused, QuietCall
<1> QED
  BY <1>1, <1>2, <1>3, <1>4, <1>5, <1>6 DEF SemaphoreStep

LEMMA QueueKinds ==
  ASSUME SwitchesAtOnce, NoTimers, QueueStep
  PROVE  (QuietCall \/ BlockingCall \/ WakingCall) /\ UNCHANGED delay_list
<1> USE DEF schedVars, timerVars, ReturnPC
<1>1. ASSUME NEW q \in Queues, NEW length \in QueueLengths, NEW size \in SlotSizes,
             CreateQueue(q, length, size)
      PROVE  QuietCall /\ UNCHANGED delay_list
  BY <1>1 DEF CreateQueue, QuietCall
<1>2. CASE CreateQueueFails
  BY <1>2 DEF CreateQueueFails, QuietCall
<1>3. ASSUME NEW t \in Tasks, NEW q \in Queues, NEW d, Executing(t), pc[t] \in ReturnPC,
             Push(t, q, d) \/ Pop(t, q), UNCHANGED boot
      PROVE  (QuietCall \/ WakingCall) /\ UNCHANGED delay_list
  BY <1>3, NotifyKinds, QueueListsKnown DEF Push, Pop
<1>4. ASSUME NEW t \in Tasks, NEW q \in Queues, NEW l \in BlockedLists, NEW ms \in Timeouts,
             NEW state \in WaitingState, NEW resume, Executing(t), pc[t] \in ReturnPC,
             WaitInQueue(t, q, l, state, ms, resume)
      PROVE  BlockingCall /\ UNCHANGED delay_list
  <2>1. ~(ms > 0)
    BY QueuesAssumption DEF SwitchesAtOnce
  <2>2. CallsScheduler(t) /\ BlockIn(t, l, state) /\ UNCHANGED delay_list
    BY <1>4, <2>1 DEF WaitInQueue, CallsScheduler
  <2> QED
    BY <2>2 DEF BlockingCall
<1>5. ASSUME NEW t \in Tasks, NEW q \in Queues, NEW ms \in Timeouts, NEW d, SendWait(t, q, d, ms)
      PROVE  BlockingCall /\ UNCHANGED delay_list
  BY <1>4, <1>5, QueueListsKnown DEF SendWait, SendCall, Calling, At, WaitingState
<1>6. ASSUME NEW t \in Tasks, NEW q \in Queues, NEW ms \in Timeouts, ReceiveWait(t, q, ms)
      PROVE  BlockingCall /\ UNCHANGED delay_list
  BY <1>4, <1>6, QueueListsKnown DEF ReceiveWait, ReceiveCall, Calling, At, WaitingState
<1>7. ASSUME NEW t \in Tasks, NEW q \in Queues, NEW ms,
             SendRefused(t, q, ms) \/ ReceiveRefused(t, q, ms)
      PROVE  QuietCall /\ UNCHANGED delay_list
  BY <1>7, ReturnFalseKind DEF SendRefused, ReceiveRefused, SendCall, ReceiveCall, Calling, At
<1>8. ASSUME NEW t \in Tasks, NEW q \in Queues, SendResume(t, q) \/ ReceiveResume(t, q)
      PROVE  (QuietCall \/ WakingCall) /\ UNCHANGED delay_list
  <2>1. UNCHANGED boot
    BY <1>8 DEF SendResume, ReceiveResume, Push, Pop, Notify, ReturnFalse
  <2> QED
    BY <1>3, <1>8, <2>1, ReturnFalseKind DEF SendResume, ReceiveResume, At
<1>9. ASSUME NEW t \in Tasks, QueueArm(t) \/ QueueExit(t)
      PROVE  QuietCall /\ UNCHANGED delay_list
  BY <1>9 DEF NoTimers, QueueArm, QueueExit, At, QuietCall
<1>10. ASSUME NEW t \in Tasks, NEW q \in Queues, NEW d \in Messages,
              SendNow(t, q, d) \/ ReceiveNow(t, q)
       PROVE  (QuietCall \/ WakingCall) /\ UNCHANGED delay_list
  <2>1. UNCHANGED boot
    BY <1>10 DEF SendNow, ReceiveNow, Push, Pop, Notify
  <2> QED
    BY <1>3, <1>10, <2>1 DEF SendNow, ReceiveNow, SendCall, ReceiveCall, Calling, At
<1>11. ASSUME NEW t \in Tasks, NEW q \in Queues, ReceiveNow(t, q)
       PROVE  (QuietCall \/ WakingCall) /\ UNCHANGED delay_list
  <2>1. UNCHANGED boot
    BY <1>11 DEF ReceiveNow, Pop, Notify
  <2> QED
    BY <1>3, <1>11, <2>1 DEF ReceiveNow, ReceiveCall, Calling, At
<1> QED
  BY <1>1, <1>2, <1>5, <1>6, <1>7, <1>8, <1>9, <1>10, <1>11 DEF QueueStep

LEMMA SchedulingSteps ==
  ASSUME SwitchesAtOnce, NoTimers, [Next]_vars
  PROVE  /\ UNCHANGED delay_list
         /\ \/ \E t \in Tasks : Schedule(t)
            \/ PendSV
            \/ \E u \in Tasks : CreateTask(u)
            \/ StartKernel
            \/ QuietCall \/ BlockingCall \/ WakingCall
<1> USE DEF schedVars, ReturnPC
<1>1. CASE SchedulerStep
  <2>1. UNCHANGED delay_list
    BY <1>1 DEF SchedulerStep, timerVars
  <2>2. ASSUME NEW u \in Tasks, CreateRefused(u) PROVE QuietCall
    BY <2>2 DEF CreateRefused, QuietCall
  <2>3. \A t, u \in Tasks : ~YieldTask(t, u) /\ ~YieldRefused(t, u)
    BY DEF SwitchesAtOnce, YieldTask, YieldRefused, YieldCall, Calling
  <2> QED
    BY <1>1, <2>1, <2>2, <2>3 DEF SchedulerStep
<1>2. CASE TimerStep
  <2>1. \A t \in Tasks, ms \in Delays : ~DelayTask(t, ms) /\ ~DelayRefused(t, ms)
    BY DEF SwitchesAtOnce, DelayTask, DelayRefused, Calling
  <2>2. \A t \in Tasks : ~DelayBlock(t)
    BY DEF NoTimers, DelayBlock, At
  <2>3. ASSUME NEW t \in Tasks, DelayExit(t) PROVE QuietCall /\ UNCHANGED delay_list
    BY <2>3 DEF DelayExit, At, QuietCall, timerVars
  <2>4. ASSUME TickIdle PROVE QuietCall /\ UNCHANGED delay_list
    BY <2>4 DEF TickIdle, QuietCall, timerVars, platformVars
  <2>5. ~TickCount /\ ~TickExpire
    BY DEF NoTimers, TickCount, TickExpire
  <2> QED
    BY <1>2, <2>1, <2>2, <2>3, <2>4, <2>5 DEF TimerStep
<1>3. CASE SemaphoreStep
  BY <1>3, SemaphoreKinds
<1>4. CASE QueueStep
  BY <1>4, QueueKinds
<1>5. CASE UNCHANGED vars
  BY <1>5 DEF vars, QuietCall, platformVars, timerVars
<1> QED
  BY <1>1, <1>2, <1>3, <1>4, <1>5 DEF Next

LEMMA NoTimersStep ==
  ASSUME SwitchesAtOnce, TypeInv, NoTimers, [Next]_vars
  PROVE  NoTimers'
<1> USE DEF NoTimers
<1>1. delay_list' = <<>>
  BY SchedulingSteps
<1>2. pc \in [Tasks -> PC] /\ ret \in [Tasks -> ReturnPC]
  BY DEF TypeInv, SchedTypeOK
<1>3. ASSUME NEW t \in Tasks, Schedule(t)
      PROVE  \A u \in Tasks : pc'[u] = pc[u] \/ pc'[u] \in SchedPC \cup ReturnPC
  BY <1>2, <1>3 DEF Schedule, SchedIndex, SchedLoad, SchedStore, SchedCheck, SchedCurrent,
     SchedMatch, SchedPreempt, SchedCommit, SchedSwitch, Goto, ReturnFromSchedule, SchedPC
<1>4. ASSUME PendSV \/ StartKernel \/ \E u \in Tasks : CreateTask(u)
      PROVE  UNCHANGED pc
  BY <1>4 DEF PendSV, StartKernel, CreateTask, schedVars
<1>5. ASSUME QuietCall \/ BlockingCall \/ WakingCall
      PROVE  \A u \in Tasks : pc'[u] = pc[u] \/ pc'[u] \in {"user", "sched_index"}
  BY <1>2, <1>5 DEF QuietCall, BlockingCall, WakingCall, CallsScheduler, Goto
<1>6. \A u \in Tasks : pc'[u] = pc[u] \/ pc'[u] \in SchedPC \cup ReturnPC
  BY <1>3, <1>4, <1>5, SchedulingSteps DEF SchedPC, ReturnPC
<1> QED
  BY <1>1, <1>6 DEF SchedPC, ReturnPC

LEMMA SchedInvInit == Init => SchedInv /\ NoTimers
<1> SUFFICES ASSUME Init PROVE SchedInv /\ NoTimers
  OBVIOUS
<1>1. /\ \A t \in Tasks : task_state[t] = "ABSENT" /\ pc[t] = "user"
      /\ task_state[Idle] = "RUNNING"
      /\ boot = "main" /\ curr_task_ptr = NoTask /\ ~pendsv /\ delay_list = <<>>
  BY TasksAssumption DEF Init, ListInit, SchedInit, PlatformInit, TimerInit
<1>2. \A t \in Tasks : ~Ready(t)
  BY DEF Init, ListInit, Ready, Range
<1> QED
  BY <1>1, <1>2 DEF SchedInv, NoTimers, StatesFit, ReadyState, PreemptedKeepsHead, BeforeStart,
                    OnlyRunner, ReturnPC

LEMMA SchedStep ==
  ASSUME SwitchesAtOnce, TypeInv, TypeInv', LinkInv, ReadyBitmapExact, NoTimers, SchedInv,
         [Next]_vars
  PROVE  SchedInv'
BY SchedulingSteps, ScheduleRuns, PendSVRuns, CreateRuns, StartRuns, QuietCallRuns,
   BlockingRuns, WakingRuns

\* What schedule() knows at each step is an invariant where switches are taken
\* at once.
THEOREM SchedInvariance ==
  ASSUME SwitchesAtOnce
  PROVE  Spec => [](TypeInv /\ LinkInv /\ ReadyBitmapExact /\ SchedInv)
<1>1. TypeInv /\ LinkInv /\ ReadyBitmapExact /\ NoTimers /\ SchedInv /\ [Next]_vars
        => NoTimers' /\ SchedInv'
  BY SchedStep, NoTimersStep, TypeStep
<1> QED
  BY <1>1, SchedInvInit, TypeInvariance, LinkInvariance, BitmapCorrect, PTL DEF Spec

-----------------------------------------------------------------------------
(* What follows for the tasks.                                             *)

LEMMA RestingRuns ==
  ASSUME SwitchesAtOnce, TypeInv, SchedInv, NEW t \in Tasks \cup {Idle}, Resting(t)
  PROVE  Runs(t)
<1>1. ~pendsv /\ boot = "kernel" /\ curr_task_ptr = t /\ (t \in Tasks => pc[t] \in ReturnPC)
  BY NothingMasked DEF Resting, Executing, Alive, SwitchesAtOnce, TypeInv, ReturnPC
<1>2. highest_prio_task_ptr = curr_task_ptr /\ Runs(curr_task_ptr)
  BY <1>1 DEF SchedInv, Running
<1> QED
  BY <1>1, <1>2

\* Without ticks the task that runs is the one that should: the head of the
\* highest ready list, whatever it and the others post, wait for, send and
\* receive.  (create_task does not call schedule(); tick_race shows what a tick
\* can do.)
THEOREM HighestRuns ==
  ASSUME SwitchesAtOnce, "create" \notin Calls
  PROVE  Spec => []RunsHighest
<1>1. TypeInv /\ LinkInv /\ ReadyBitmapExact /\ SchedInv => RunsHighest
  BY RestingRuns, NextShouldRun DEF Runs, RunsHighest
<1> QED
  BY <1>1, SchedInvariance, PTL

\* Without ticks and yields the running task is RUNNING, and nobody else is.
THEOREM OneTaskRuns ==
  ASSUME SwitchesAtOnce
  PROVE  Spec => []OneRunning
<1>1. TypeInv /\ SchedInv => OneRunning
  BY RestingRuns DEF Runs, OnlyRunner, OneRunning
<1> QED
  BY <1>1, SchedInvariance, PTL

\* A task that was preempted keeps its place in front of its equals.
THEOREM PreemptedFirst ==
  ASSUME SwitchesAtOnce
  PROVE  Spec => []PreemptedKeepsHead
<1>1. SchedInv => PreemptedKeepsHead
  BY DEF SchedInv, StatesFit
<1> QED
  BY <1>1, SchedInvariance, PTL

\* Without time limits no call returns to a task that is still in a list of
\* blocked tasks.  (With one it does: see queue_timed.)
THEOREM WaitersStopped ==
  ASSUME SwitchesAtOnce
  PROVE  Spec => []WaitersDoNotRun
<1>1. ASSUME TypeInv, LinkInv, SchedInv, NEW t \in Tasks, Resting(t), NEW l \in BlockedLists
      PROVE  ~WaitsFor(t, l)
  <2>1. Runs(t) /\ t # Idle /\ t \in Indexable
    BY <1>1, RestingRuns, ExecutingRuns DEF Resting
  <2>2. Ready(t)
    BY <1>1, <2>1, HeadInList DEF Runs
  <2> QED
    BY <1>1, <2>2 DEF LinkInv, StateLinked, Waits
<1>2. TypeInv /\ LinkInv /\ SchedInv => WaitersDoNotRun
  BY <1>1 DEF WaitersDoNotRun
<1> QED
  BY <1>2, SchedInvariance, PTL
=============================================================================
