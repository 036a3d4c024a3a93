----------------------------- MODULE Scheduler ------------------------------
(***************************************************************************)
(* core.c, task.c and the PendSV handler: task creation, yield, schedule() *)
(* and the context switch.                                                 *)
(*                                                                         *)
(* A task runs kernel code in its own context.  Its pc says where: "user"  *)
(* is outside the kernel; schedule() is a sequence of steps because every  *)
(* caller but post_semaphore reaches it with interrupts enabled, and the   *)
(* tick handler runs schedule() too.  idx and picked are the locals of a   *)
(* schedule() in progress; ret is where its caller continues.              *)
(***************************************************************************)
EXTENDS TaskLists

CONSTANTS MAX_PRIORITY,     \* create_task refuses this priority and above
          Calls             \* the kernel calls the user tasks make

ASSUME SchedulerAssumption ==
  /\ MAX_PRIORITY \in Nat
  /\ Calls \subseteq {"create", "create_queue", "yield", "yield_other", "delay",
                    "post", "wait", "send", "receive"}

VARIABLES task_list,        \* the tasks registered in task_list / task_bitmap
          pc, idx, picked, ret,
          boot,             \* "main", "kernel", or "returned" from start
          wild              \* an access outside its object has been made

schedVars == <<task_list, pc, idx, picked, ret, boot, wild>>

SchedPC == {"sched_index", "sched_load", "sched_store", "sched_check",
            "sched_current", "sched_match", "sched_preempt", "sched_commit", "sched_switch"}
QueuePC == {"queue_arm", "send_resume", "receive_resume", "queue_exit"}
PC == SchedPC \cup QueuePC \cup {"user", "delay_block", "delay_exit"}

\* Where the callers of schedule() continue.
ReturnPC == {"user", "delay_exit", "send_resume", "receive_resume", "queue_exit"}

IDLE_IDX == MAX_NUM_TASKS   \* idx on the branch that takes the idle task

-----------------------------------------------------------------------------
(* Who executes.  PSP always belongs to curr_task_ptr once the kernel runs. *)
(* A pending PendSV that is not masked is taken before the next step of    *)
(* the interrupted task.                                                   *)

Alive == boot = "kernel" /\ ~wild

Executing(t) ==
  /\ Alive
  /\ curr_task_ptr = t
  /\ ~(pendsv /\ ~PendSVMasked)

At(t, label) == Executing(t) /\ pc[t] = label

Calling(t, call) == call \in Calls /\ At(t, "user")

Goto(t, label) == pc' = [pc EXCEPT ![t] = label]

\* A call of schedule(), after which the caller continues at label.
CallSchedule(t, label) ==
  /\ Goto(t, "sched_index")
  /\ ret' = [ret EXCEPT ![t] = label]

-----------------------------------------------------------------------------
(* schedule()                                                              *)

\* The value of get_highest_bitmap_idx for a bitmap that is not zero.
get_highest_bitmap_idx(bitmap, p) ==
  /\ p \in bitmap
  /\ \A q \in bitmap : q <= p

\* highest_prio_task_ptr as schedule() sets it from the given ready lists.
IsNextTask(t, lists, bitmap) ==
  \/ bitmap = {} /\ t = Idle
  \/ \E p \in Priorities : get_highest_bitmap_idx(bitmap, p) /\ t = HeadOf(lists[p])

\* schedule() run without interruption (by the tick handler, and at start),
\* on the ready lists of the next state and on the given task states.
ScheduleNow(states, curr) ==
  \E t \in TaskPtr :
    /\ IsNextTask(t, ready_list', ready_bitmap')
    /\ highest_prio_task_ptr' = t
    /\ IF ready_to_running(states, curr, t, t)
       THEN /\ task_state' = [PreemptCurrent(states, curr) EXCEPT ![t] = "RUNNING"]
            /\ context_switch
       ELSE task_state' = states /\ UNCHANGED pendsv

\* Return from schedule(); its locals are dead.
ReturnFromSchedule(t) ==
  /\ pc' = [pc EXCEPT ![t] = ret[t]]
  /\ ret' = [ret EXCEPT ![t] = "user"]
  /\ idx' = [idx EXCEPT ![t] = IDLE_IDX]
  /\ picked' = [picked EXCEPT ![t] = NoTask]

SchedIndex(t) ==
  /\ At(t, "sched_index")
  /\ Goto(t, "sched_load")
  /\ \E i \in Priorities \cup {IDLE_IDX} :
       /\ IF ready_bitmap = {} THEN i = IDLE_IDX
                               ELSE get_highest_bitmap_idx(ready_bitmap, i)
       /\ idx' = [idx EXCEPT ![t] = i]
  /\ UNCHANGED <<platformVars, listVars, task_list, picked, ret, boot, wild>>

SchedLoad(t) ==
  /\ At(t, "sched_load")
  /\ Goto(t, "sched_store")
  /\ picked' = [picked EXCEPT ![t] =
                  IF idx[t] = IDLE_IDX THEN Idle ELSE HeadOf(ready_list[idx[t]])]
  /\ UNCHANGED <<platformVars, listVars, task_list, idx, ret, boot, wild>>

SchedStore(t) ==
  /\ At(t, "sched_store")
  /\ Goto(t, "sched_check")
  /\ highest_prio_task_ptr' = picked[t]
  /\ UNCHANGED <<platformVars, task_state, ready_list, ready_bitmap, curr_task_ptr,
                 task_list, idx, picked, ret, boot, wild>>

\* The argument of change_task_state is highest_prio_task_ptr: the value just
\* stored, or what a reload finds there (the two accesses race with the tick,
\* and the compiler may keep the value in a register or not).
SchedCheck(t) ==
  /\ At(t, "sched_check")
  /\ \E task \in {picked[t], highest_prio_task_ptr} :
       IF Runnable(task_state, task)
       THEN /\ Goto(t, "sched_current")
            /\ picked' = [picked EXCEPT ![t] = task]
            /\ UNCHANGED <<idx, ret>>
       ELSE ReturnFromSchedule(t)
  /\ UNCHANGED <<platformVars, listVars, task_list, boot, wild>>

\* The other two tests of ready_to_running, each with a read of its own.
SchedCurrent(t) ==
  /\ At(t, "sched_current")
  /\ IF curr_task_ptr # highest_prio_task_ptr
     THEN Goto(t, "sched_match") /\ UNCHANGED <<idx, picked, ret>>
     ELSE ReturnFromSchedule(t)
  /\ UNCHANGED <<platformVars, listVars, task_list, boot, wild>>

SchedMatch(t) ==
  /\ At(t, "sched_match")
  /\ IF highest_prio_task_ptr = picked[t]
     THEN Goto(t, "sched_preempt") /\ UNCHANGED <<idx, picked, ret>>
     ELSE ReturnFromSchedule(t)
  /\ UNCHANGED <<platformVars, listVars, task_list, boot, wild>>

SchedPreempt(t) ==
  /\ At(t, "sched_preempt")
  /\ Goto(t, "sched_commit")
  /\ task_state' = PreemptCurrent(task_state, curr_task_ptr)
  /\ UNCHANGED <<platformVars, ready_list, ready_bitmap, curr_task_ptr,
                 highest_prio_task_ptr, task_list, idx, picked, ret, boot, wild>>

SchedCommit(t) ==
  /\ At(t, "sched_commit")
  /\ Goto(t, "sched_switch")
  /\ task_state' = [task_state EXCEPT ![picked[t]] = "RUNNING"]
  /\ UNCHANGED <<platformVars, ready_list, ready_bitmap, curr_task_ptr,
                 highest_prio_task_ptr, task_list, idx, picked, ret, boot, wild>>

SchedSwitch(t) ==
  /\ At(t, "sched_switch")
  /\ IF curr_task_ptr # highest_prio_task_ptr THEN context_switch ELSE UNCHANGED pendsv
  /\ ReturnFromSchedule(t)
  /\ UNCHANGED <<basepri, listVars, task_list, boot, wild>>

Schedule(t) ==
  \/ SchedIndex(t) \/ SchedLoad(t) \/ SchedStore(t)
  \/ SchedCheck(t) \/ SchedCurrent(t) \/ SchedMatch(t)
  \/ SchedPreempt(t) \/ SchedCommit(t) \/ SchedSwitch(t)

\* pendsv_handler: load_next_task copies highest_prio_task_ptr.
PendSV ==
  /\ Alive
  /\ pendsv /\ ~PendSVMasked
  /\ pendsv' = FALSE
  /\ curr_task_ptr' = highest_prio_task_ptr
  /\ UNCHANGED <<basepri, task_state, ready_list, ready_bitmap,
                 highest_prio_task_ptr, schedVars>>

-----------------------------------------------------------------------------
(* create_task, by main before the kernel starts or by a running task      *)

Creator == boot = "main" \/ \E t \in Tasks : Calling(t, "create")

is_task_createable(u) == Priority[u] < MAX_PRIORITY /\ u \notin task_list

\* A priority beyond the last entry of ready_list passes is_task_createable:
\* the insertion then reads and writes outside the array.
CreateTask(u) ==
  /\ Creator /\ ~wild
  /\ is_task_createable(u)
  /\ task_list' = task_list \cup {u}
  /\ IF Priority[u] \in Priorities
     THEN /\ insert_into_ready_list(u)
          /\ task_state' = [task_state EXCEPT ![u] = "READY"]
          /\ UNCHANGED wild
     ELSE wild' = TRUE /\ UNCHANGED <<task_state, ready_list, ready_bitmap>>
  /\ enable_ctx_sw
  /\ UNCHANGED <<pendsv, curr_task_ptr, highest_prio_task_ptr,
                 pc, idx, picked, ret, boot>>

\* The refusals of a NULL task or entry point, a misaligned stack and a taken id
\* have the same effect: nothing but the mask changes.
CreateRefused(u) ==
  /\ Creator /\ ~wild
  /\ ~is_task_createable(u)
  /\ enable_ctx_sw
  /\ UNCHANGED <<pendsv, listVars, schedVars>>

-----------------------------------------------------------------------------
(* yield_task(u), called by t                                              *)

YieldCall(t, u) == Calling(t, IF u = t THEN "yield" ELSE "yield_other")

is_task_yieldable(u) ==
  /\ u \in task_list
  /\ Priority[u] \in ready_bitmap
  /\ ready_list[Priority[u]] # <<>>
  /\ task_state[u] \in {"READY", "RUNNING"}

\* Moving u to the tail: the code advances the head when u is the head and
\* relinks u when it is in the middle.  The links of a u that is not in the list
\* are NULL, which the relinking dereferences, or those of a wait list, which
\* it ties to the ready list.  Whatever u is, it is the caller whose state
\* becomes READY.
YieldTask(t, u) ==
  /\ YieldCall(t, u)
  /\ is_task_yieldable(u)
  /\ IF u \in Range(ready_list[Priority[u]])
     THEN /\ \E i \in DOMAIN ready_list[Priority[u]] :
               /\ ready_list[Priority[u]][i] = u
               /\ ready_list' = [ready_list EXCEPT
                                   ![Priority[u]] = Append(RemoveAt(@, i), u)]
          /\ UNCHANGED wild
     ELSE wild' = TRUE /\ UNCHANGED ready_list
  /\ task_state' = [task_state EXCEPT ![t] = "READY"]
  /\ enable_ctx_sw
  /\ CallSchedule(t, "user")
  /\ UNCHANGED <<pendsv, ready_bitmap, curr_task_ptr, highest_prio_task_ptr,
                 task_list, idx, picked, boot>>

YieldRefused(t, u) ==
  /\ YieldCall(t, u)
  /\ ~is_task_yieldable(u)
  /\ enable_ctx_sw
  /\ UNCHANGED <<pendsv, listVars, schedVars>>

-----------------------------------------------------------------------------
(* start_thinkernel: the idle task becomes current and schedule() runs.    *)
(* With no ready task schedule() gives up (the idle task is RUNNING, not   *)
(* READY) and start_thinkernel returns to main.                            *)

StartKernel ==
  /\ boot = "main" /\ ~wild
  /\ curr_task_ptr' = Idle
  /\ UNCHANGED <<ready_list, ready_bitmap>>
  /\ ScheduleNow([task_state EXCEPT ![Idle] = "RUNNING"], Idle)
  /\ boot' = IF ready_bitmap = {} THEN "returned" ELSE "kernel"
  /\ UNCHANGED <<basepri, task_list, pc, idx, picked, ret, wild>>

-----------------------------------------------------------------------------
SchedInit ==
  /\ task_list = {}
  /\ pc = [t \in Tasks |-> "user"]
  /\ idx = [t \in Tasks |-> IDLE_IDX]
  /\ picked = [t \in Tasks |-> NoTask]
  /\ ret = [t \in Tasks |-> "user"]
  /\ boot = "main"
  /\ wild = FALSE

SchedTypeOK ==
  /\ task_list \in SUBSET Tasks
  /\ pc \in [Tasks -> PC]
  /\ idx \in [Tasks -> Priorities \cup {IDLE_IDX}]
  /\ picked \in [Tasks -> TaskPtr]
  /\ ret \in [Tasks -> ReturnPC]
  /\ boot \in {"main", "kernel", "returned"}
  /\ wild \in BOOLEAN
=============================================================================
