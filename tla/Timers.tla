------------------------------- MODULE Timers -------------------------------
(***************************************************************************)
(* timer.c: delay_task, the delta-ordered delay list and the tick handler. *)
(* delay_list is the sequence of the armed timers from the head; each      *)
(* keeps the ticks that pass between the expiry of its predecessor and its *)
(* own.  set_timer without shouldSchedule (ArmTimer) and clear_timer are   *)
(* used by the queues.                                                     *)
(***************************************************************************)
EXTENDS Scheduler

CONSTANTS MAX_NUM_TIMERS,   \* entries of timer_list, the pool
          UINT32_MODULUS,   \* 2^32 in the code: the width of a delay field
          Delays            \* the delays the tasks ask for

ASSUME TimersAssumption ==
  /\ MAX_NUM_TIMERS \in Nat
  /\ UINT32_MODULUS \in Nat \ {0, 1}
  /\ Delays \subseteq 0..(UINT32_MODULUS - 1)

VARIABLES delay_list,
          timer_bitmap,     \* the ids of the free timers
          armed             \* local of set_timer: the timer of a call in progress,
                            \* its id and what its task field holds

timerVars == <<delay_list, timer_bitmap, armed>>

TimerIds == 0..(MAX_NUM_TIMERS - 1)
NO_TIMER == MAX_NUM_TIMERS
Ticks == 0..(UINT32_MODULUS - 1)
Timer == [id : TimerIds, task : Tasks, delay : Ticks]
NotArmed == [id |-> NO_TIMER, task |-> NoTask]

-----------------------------------------------------------------------------
(* delay_task -> set_timer(ms, true)                                       *)

is_task_delayable(t, ms) == ms # 0 /\ Removable(t)

WrongStaysFree(id) ==
  get_highest_bitmap_idx(timer_bitmap, id) /\ UNCHANGED timer_bitmap

\* The pool: the free timer with the highest id is taken.
get_timer_instance(id) ==
  /\ get_highest_bitmap_idx(timer_bitmap, id)
  /\ timer_bitmap' = timer_bitmap \ {id}

return_timer_instance(id) == timer_bitmap' = timer_bitmap \cup {id}

\* The ticks until the timer at place k expires: its delay and those before it.
TotalDelay(list, k) ==
  LET sum[i \in 0..Len(list)] == IF i = 0 THEN 0 ELSE sum[i - 1] + list[i].delay
  IN  sum[k]

\* The loop of set_timer stops in front of place k with left ticks to go: it
\* has subtracted the delay of every timer before k, and the timer at k, if
\* there is one, expires later.
ScanStopsAt(ms, k, left) ==
  /\ left = ms - TotalDelay(delay_list, k - 1)
  /\ k <= Len(delay_list) => left < delay_list[k].delay

WrongSuccessorKept(timer, k) == delay_list' = InsertAt(delay_list, k, timer)

\* The timer behind the new one keeps the difference only.
InsertTimer(timer, k) ==
  delay_list' =
    InsertAt(IF k <= Len(delay_list)
               THEN [delay_list EXCEPT ![k].delay = @ - timer.delay]
               ELSE delay_list,
             k, timer)

\* timer->task of timer id becomes t, for whoever still points to that timer.
Reassigned(id, t) ==
  [u \in Tasks |-> IF armed[u].id = id THEN [armed[u] EXCEPT !.task = t] ELSE armed[u]]

\* set_timer(ms, false) for the task t: its timer id goes into the delay list.
ArmTimer(t, ms, id) ==
  /\ is_task_delayable(t, ms)
  /\ get_timer_instance(id)
  /\ \E k \in 1..(Len(delay_list) + 1), left \in 0..ms :
       /\ ScanStopsAt(ms, k, left)
       /\ InsertTimer([id |-> id, task |-> t, delay |-> left], k)

DelayTask(t, ms) ==
  /\ Calling(t, "delay")
  /\ disable_ctx_sw
  /\ \E id \in TimerIds :
       /\ ArmTimer(t, ms, id)
       /\ armed' = [Reassigned(id, t) EXCEPT ![t] = [id |-> id, task |-> t]]
  /\ Goto(t, "delay_block")
  /\ UNCHANGED <<pendsv, listVars, task_list, idx, picked, ret, boot, wild>>

DelayRefused(t, ms) ==
  /\ Calling(t, "delay")
  /\ ~is_task_delayable(t, ms) \/ timer_bitmap = {}
  /\ enable_ctx_sw
  /\ UNCHANGED <<pendsv, listVars, schedVars, timerVars>>

\* change_task_state(timer->task, DELAY), still inside the critical section: the
\* task is the caller, or what a reload of the field finds there if the timer
\* has expired and was taken again (the compiler may keep the value in a
\* register or not).  A task that is not the current one is refused; the timer
\* then goes back to the pool and stays in the list.
DelayBlock(t) ==
  /\ At(t, "delay_block")
  /\ armed' = [armed EXCEPT ![t] = NotArmed]
  /\ enable_ctx_sw
  /\ \E task \in {t, armed[t].task} :
       IF task = t /\ Removable(t)
       THEN /\ remove_from_ready_list(t)
            /\ task_state' = [task_state EXCEPT ![t] = "DELAY"]
            /\ CallSchedule(t, "delay_exit")
            /\ UNCHANGED timer_bitmap
       ELSE /\ return_timer_instance(armed[t].id)
            /\ Goto(t, "user")
            /\ UNCHANGED <<task_state, ready_list, ready_bitmap, ret>>
  /\ UNCHANGED <<pendsv, curr_task_ptr, highest_prio_task_ptr, task_list, idx,
                 picked, boot, wild, delay_list>>

DelayExit(t) ==
  /\ At(t, "delay_exit")
  /\ enable_ctx_sw
  /\ Goto(t, "user")
  /\ UNCHANGED <<pendsv, listVars, task_list, idx, picked, ret, boot, wild, timerVars>>

-----------------------------------------------------------------------------
(* clear_timer(task)                                                       *)

HasTimer(t) == \E i \in DOMAIN delay_list : delay_list[i].task = t

\* Taking timer k off: the timer behind it inherits its ticks.
Unlinked(k) ==
  RemoveAt(IF k < Len(delay_list)
             THEN [delay_list EXCEPT ![k + 1].delay =
                     (@ + delay_list[k].delay) % UINT32_MODULUS]
             ELSE delay_list,
           k)

\* The first timer of t, if it has one.
clear_timer(t) ==
  IF HasTimer(t)
  THEN \E k \in DOMAIN delay_list :
         /\ delay_list[k].task = t
         /\ \A i \in 1..(k - 1) : delay_list[i].task # t
         /\ delay_list' = Unlinked(k)
         /\ return_timer_instance(delay_list[k].id)
         /\ armed' = Reassigned(delay_list[k].id, NoTask)
  ELSE UNCHANGED timerVars

-----------------------------------------------------------------------------
(* systick_handler -> service_timers.  No exception of the kernel preempts *)
(* the handler, so it is one step.                                         *)

Tick == boot # "main" /\ ~wild /\ ~SysTickMasked

TickIdle ==
  /\ Tick
  /\ delay_list = <<>>
  /\ UNCHANGED <<platformVars, listVars, schedVars, timerVars>>

\* --delay_list->delay, in the width of the field.
Decremented(delay) == (delay + UINT32_MODULUS - 1) % UINT32_MODULUS

TickCount ==
  /\ Tick
  /\ delay_list # <<>>
  /\ Decremented(Head(delay_list).delay) # 0
  /\ delay_list' = [delay_list EXCEPT ![1].delay = Decremented(@)]
  /\ UNCHANGED <<platformVars, listVars, schedVars, timer_bitmap, armed>>

\* change_task_state(READY) with no list: it makes a task in DELAY ready and
\* refuses every other.  schedule() runs either way.
TickExpire ==
  /\ Tick
  /\ delay_list # <<>>
  /\ Decremented(Head(delay_list).delay) = 0
  /\ delay_list' = Tail(delay_list)
  /\ return_timer_instance(Head(delay_list).id)
  /\ LET t == Head(delay_list).task
     IN  IF task_state[t] = "DELAY"
         THEN /\ insert_into_ready_list(t)
              /\ ScheduleNow([task_state EXCEPT ![t] = "READY"], curr_task_ptr)
         ELSE /\ UNCHANGED <<ready_list, ready_bitmap>>
              /\ ScheduleNow(task_state, curr_task_ptr)
  /\ UNCHANGED <<basepri, curr_task_ptr, schedVars, armed>>

-----------------------------------------------------------------------------
TimerInit ==
  /\ delay_list = <<>>
  /\ timer_bitmap = TimerIds
  /\ armed = [t \in Tasks |-> NotArmed]

TimerTypeOK ==
  /\ delay_list \in Seq(Timer)
  /\ timer_bitmap \in SUBSET TimerIds
  /\ armed \in [Tasks -> [id : TimerIds \cup {NO_TIMER}, task : Tasks \cup {NoTask}]]
=============================================================================
