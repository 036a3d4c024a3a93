------------------------------- MODULE Kernel -------------------------------
(***************************************************************************)
(* The whole kernel: the user tasks in arbitrary sequences of the calls in *)
(* Calls, the tick handler and the PendSV handler, interleaved as the      *)
(* priorities and the mask of the platform allow.                          *)
(***************************************************************************)
EXTENDS Queues, Semaphores

vars == <<platformVars, listVars, blocked_list, schedVars, timerVars, semVars, queueVars>>

Init ==
  PlatformInit /\ ListInit /\ SchedInit /\ TimerInit /\ SemInit /\ QueueInit

SchedulerStep ==
  /\ \/ \E t \in Tasks : Schedule(t)
     \/ PendSV
     \/ \E u \in Tasks : CreateTask(u) \/ CreateRefused(u)
     \/ \E t, u \in Tasks : YieldTask(t, u) \/ YieldRefused(t, u)
     \/ StartKernel
  /\ UNCHANGED <<blocked_list, timerVars, semVars, queueVars>>

TimerStep ==
  /\ \/ \E t \in Tasks, ms \in Delays : DelayTask(t, ms) \/ DelayRefused(t, ms)
     \/ \E t \in Tasks : DelayBlock(t) \/ DelayExit(t)
     \/ TickIdle
     \/ TickCount
     \/ TickExpire
  /\ UNCHANGED <<blocked_list, semVars, queueVars>>

SemaphoreStep ==
  /\ \/ \E s \in Semaphores, v \in InitialCounts : CreateSemaphore(s, v)
     \/ \E s \in Semaphores : CreateSemaphoreRefused(s)
     \/ \E t \in Tasks, s \in Semaphores :
          \/ PostCount(t, s) \/ PostWake(t, s) \/ PostRefused(t, s)
          \/ WaitTake(t, s) \/ WaitBlock(t, s) \/ WaitRefused(t, s)
  /\ UNCHANGED <<timerVars, queueVars>>

QueueStep ==
  /\ \/ \E q \in Queues, length \in QueueLengths, size \in SlotSizes :
          CreateQueue(q, length, size)
     \/ CreateQueueFails
     \/ \E t \in Tasks, q \in Queues, d \in Messages :
          \/ SendNow(t, q, d)
          \/ \E ms \in Timeouts : SendWait(t, q, d, ms)
     \/ \E t \in Tasks, q \in Queues, ms \in Timeouts :
          SendRefused(t, q, ms) \/ ReceiveWait(t, q, ms) \/ ReceiveRefused(t, q, ms)
     \/ \E t \in Tasks, q \in Queues :
          ReceiveNow(t, q) \/ SendResume(t, q) \/ ReceiveResume(t, q)
     \/ \E t \in Tasks : QueueArm(t) \/ QueueExit(t)
  /\ UNCHANGED semVars

Next == SchedulerStep \/ TimerStep \/ SemaphoreStep \/ QueueStep

Spec == Init /\ [][Next]_vars

\* Kernel code that t is in the middle of.
Continue(t) ==
  \/ Schedule(t) /\ UNCHANGED <<blocked_list, timerVars, semVars, queueVars>>
  \/ (DelayBlock(t) \/ DelayExit(t)) /\ UNCHANGED <<blocked_list, semVars, queueVars>>
  \/ /\ \/ QueueArm(t) \/ QueueExit(t)
        \/ \E q \in Queues : SendResume(t, q) \/ ReceiveResume(t, q)
     /\ UNCHANGED semVars

\* The processor keeps executing the kernel code a task is in, and takes an
\* exception that is pending and not masked.
Fairness ==
  /\ WF_vars(\E t \in Tasks : Continue(t))
  /\ WF_vars(PendSV /\ UNCHANGED <<blocked_list, timerVars, semVars, queueVars>>)

FairSpec == Spec /\ Fairness

-----------------------------------------------------------------------------
(* Types                                                                   *)

\* Every variable stays in the range its C declaration gives it: pointers are
\* NULL or name a TCB, a delay fits its field and a count its limit.
TypeOK ==
  PlatformTypeOK /\ ListTypeOK /\ SchedTypeOK /\ TimerTypeOK /\ SemTypeOK /\ QueueTypeOK

-----------------------------------------------------------------------------
(* The lists of list.c                                                     *)

Ready(t) == \E p \in Priorities : t \in Range(ready_list[p])
Delayed(t) == \E i \in DOMAIN delay_list : delay_list[i].task = t
WaitsFor(t, l) == t \in Range(blocked_list[l])

\* A bit of ready_bitmap says whether the ready list of its priority has a
\* task: schedule() trusts the bit before it takes the head of the list, and
\* would make NULL the next task.
ReadyBitmapExact ==
  \A p \in Priorities : p \in ready_bitmap <=> ready_list[p] # <<>>

\* The next/prev links of a TCB serve one list at a time: a task is at most
\* once in a list, in the ready list of its own priority only, and never in
\* two of the ready lists and the lists of blocked tasks.
LinkedOnce ==
  /\ \A p \in Priorities : IsInjective(ready_list[p])
  /\ \A p \in Priorities : \A t \in Range(ready_list[p]) : Priority[t] = p
  /\ \A l \in BlockedLists : IsInjective(blocked_list[l])
  /\ \A l, m \in BlockedLists, t \in Tasks : WaitsFor(t, l) /\ WaitsFor(t, m) => l = m
  /\ \A l \in BlockedLists, t \in Tasks : WaitsFor(t, l) => ~Ready(t)

\* A task whose state says that it is blocked is linked where it can be woken:
\* one in DELAY has an armed timer and one that is WAITING is in the list of a
\* semaphore or a queue; neither is in a ready list.  This is what the critical
\* section around arming the timer and leaving the ready list is for.  It says
\* nothing of a task whose state was overwritten; see LostByExpiryOnly.
BlockedIsLinked ==
  \A t \in Tasks :
    /\ task_state[t] = "DELAY" => Delayed(t) /\ ~Ready(t)
    /\ task_state[t] \in WaitingState =>
         (\E l \in BlockedLists : WaitsFor(t, l)) /\ ~Ready(t)

\* The kernel still has t: it is in a ready list, has an armed timer or is in the
\* list of a semaphore or a queue.
Held(t) == Ready(t) \/ Delayed(t) \/ \E l \in BlockedLists : WaitsFor(t, l)

\* No task is lost: one that was created stays in some list, from which it can
\* be picked or woken.
NoTaskLost == \A t \in task_list : Priority[t] \in Priorities => Held(t)

\* Where tasks delay, a task is lost in one way only: its timer expires and the
\* expiry is refused because the state is not DELAY any more.  (A schedule()
\* that was interrupted by the tick may store RUNNING for a task that has
\* blocked since, see RunsHighest.)  No call and no other tick loses a task.
LostByExpiryOnly ==
  [][\A t \in Tasks : Held(t) /\ ~Held(t)' =>
       /\ TickExpire
       /\ t = Head(delay_list).task
       /\ task_state[t] # "DELAY"]_vars

\* A task that was preempted is still the head of its ready list: it runs on
\* before its equals, and change_task_state, which blocks heads only, accepts
\* it when it does.
PreemptedKeepsHead ==
  \A t \in Tasks : task_state[t] = "PREEMPTED" => HeadOf(ready_list[Priority[t]]) = t

-----------------------------------------------------------------------------
(* Those who wait                                                          *)

\* A list of blocked tasks is ordered by priority: a post, a send or a receive
\* wakes its head, which must be a waiter of the highest priority.
WaitersOrdered ==
  \A l \in BlockedLists : \A i, j \in DOMAIN blocked_list[l] :
    i < j => Priority[blocked_list[l][i]] >= Priority[blocked_list[l][j]]

\* No task waits for a semaphore that has a token to give: a post hands the
\* token to a waiter and a wait takes one that is there.
NoIdleTokens ==
  \A s \in Semaphores : sem_val[s] > 0 => blocked_list[WaitList(s)] = <<>>

\* A semaphore is what an abstract semaphore promises: a token a post gives goes
\* to a waiter of the highest priority or, when nobody waits, to the count, and
\* a task waits only while there is no token.  A post that gives none (at SEM_MAX)
\* is a stutter of the abstract semaphore, so TokenSpec is about where tokens go
\* and not about every post giving one; NoIdleTokens is about those that are kept.
Tokens == INSTANCE CountingSemaphore
            WITH created <- sem_list, tokens <- sem_val,
                 waiting <- [s \in Semaphores |-> Range(blocked_list[WaitList(s)])]

TokenSpec == Tokens!Spec

Before(list, t, u) ==
  \E i, j \in DOMAIN list : i < j /\ list[i] = t /\ list[j] = u

\* First come, first served: as long as a task waits, no waiter of its priority
\* that came later gets ahead of it or is served, and one that joins goes
\* behind it.
NoOvertaking ==
  [][\A l \in BlockedLists : \A t, u \in Tasks :
       LET joins == ~WaitsFor(u, l) /\ WaitsFor(u, l)'
       IN  /\ Priority[t] = Priority[u]
           /\ WaitsFor(t, l) /\ WaitsFor(t, l)'
           /\ Before(blocked_list[l], t, u) \/ joins
           => Before(blocked_list[l]', t, u)]_vars

-----------------------------------------------------------------------------
(* Queues                                                                  *)

\* What a queue holds, oldest first.
Contents(qu) ==
  [i \in 1..qu.count |->
     qu.slots[IF qu.head + i <= qu.capacity THEN qu.head + i - 1
                                            ELSE qu.head + i - 1 - qu.capacity]]

\* A queue is what an abstract queue promises: each datum that a send puts in
\* is received once, in the order of the sends, into the buffer of the receiver,
\* and the queue never holds more than its length.
Fifo == INSTANCE MessageQueue
          WITH items <- [q \in Queues |-> Contents(queue[q])],
               capacity <- [q \in Queues |-> queue[q].capacity]

FifoSpec == Fifo!Spec

\* The three counters of a queue say the same: head is count slots behind tail,
\* and both are inside the block, so that no send or receive copies from or to
\* memory that belongs to somebody else.
RingExact ==
  /\ ~wild
  /\ \A q \in Queues : LET qu == queue[q] IN
       qu.capacity > 0 =>
         /\ qu.head < qu.capacity /\ qu.tail < qu.capacity
         /\ qu.capacity <= qu.room /\ qu.count <= qu.capacity
         /\ \/ qu.tail = qu.head + qu.count
            \/ qu.tail + qu.capacity = qu.head + qu.count

\* The tasks that were woken in list l of q and have not tested the queue yet.
Woken(q, l, resume) ==
  {t \in Tasks : resume \in {pc[t], ret[t]} /\ request[t].queue = q /\ ~WaitsFor(t, l)}

\* Nobody sleeps through a datum or a free slot: if a task waits to receive,
\* for every datum in the queue a task is on its way that was woken for it,
\* and if a task waits to send, for every free slot.
NoIdleWaiters ==
  \A q \in Queues :
    /\ blocked_list[ReceiveList(q)] # <<>> =>
         queue[q].count <= Cardinality(Woken(q, ReceiveList(q), "receive_resume"))
    /\ blocked_list[SendList(q)] # <<>> =>
         queue[q].capacity - queue[q].count
           <= Cardinality(Woken(q, SendList(q), "send_resume"))

\* A send or receive with a negative ms does not give up: the call of a task
\* that waits ends when it has put its datum in, or taken one out.
ForeverMeansForever ==
  [][\A t \in Tasks :
       request[t].ms < 0 /\ request'[t] = NoCall =>
         queue'[request[t].queue].count # queue[request[t].queue].count]_vars

-----------------------------------------------------------------------------
(* Timers                                                                  *)

\* No timer is lost or shared: a timer is either free in the pool or in the
\* delay list, and there once, and a task has at most one.
TimerPoolExact ==
  /\ \A i, j \in DOMAIN delay_list :
       \/ delay_list[i].id = delay_list[j].id
       \/ delay_list[i].task = delay_list[j].task
       => i = j
  /\ \A id \in TimerIds :
       id \in timer_bitmap <=> \A i \in DOMAIN delay_list : delay_list[i].id # id

\* The armed timers, each with the ticks that are left until it expires.
ArmedAt(list, i) ==
  [id |-> list[i].id, task |-> list[i].task, left |-> TotalDelay(list, i)]

Armed == {ArmedAt(delay_list, i) : i \in DOMAIN delay_list}

\* delay_task(ms) of t: a free timer has ms ticks to go, the others as before.
Arms(t, ms) ==
  \E id \in timer_bitmap : Armed' = Armed \cup {[id |-> id, task |-> t, left |-> ms]}

\* A tick: the head expires if it had one tick left, every other timer has one
\* tick less to go.  A head with none left is decremented below 0, and all the
\* timers are put off by the width of its delay.
Ticked ==
  LET wrapped == IF Head(delay_list).delay = 0 THEN UINT32_MODULUS ELSE 0
  IN  Armed' = {[timer EXCEPT !.left = @ - 1 + wrapped] : timer \in
                  IF Head(delay_list).delay = 1 THEN Armed \ {ArmedAt(delay_list, 1)}
                                                ELSE Armed}

\* The delta list keeps the time of every timer: delay_task adds one with the
\* ms of the call and leaves the others alone, wherever in the list it goes, a
\* tick counts once for each, and nothing else touches the list (clear_timer
\* finds no timer where the mask works, because set_timer refuses the calls of
\* queue.c).  It does not say that a delay takes ms ticks: of two timers that end
\* together the second is put off; see RemainingBounded.
RemainingKept ==
  [][/\ \A t \in Tasks, ms \in Delays : DelayTask(t, ms) => Arms(t, ms)
     /\ TickCount \/ TickExpire => Ticked
     /\ \/ TickCount \/ TickExpire
        \/ \E t \in Tasks, ms \in Delays : DelayTask(t, ms)]_delay_list

\* No timer has longer to go than the longest delay anybody asked for.
\* service_timers takes one timer off the list per tick; a second one that
\* expires at the same tick stays, with delay 0, and the next tick decrements
\* it below 0.
RemainingBounded ==
  \A timer \in Armed : \E ms \in Delays : timer.left <= ms

-----------------------------------------------------------------------------
(* Who runs                                                                *)

\* The choice a priority scheduler must make: a ready task that no ready task
\* has priority over, the head of its list; the idle task when none is ready.
ShouldRun(t) ==
  IF t = Idle THEN \A u \in Tasks : ~Ready(u)
  ELSE /\ Ready(t)
       /\ HeadOf(ready_list[Priority[t]]) = t
       /\ \A u \in Tasks : Ready(u) => Priority[u] <= Priority[t]

\* The processor is executing t, and no kernel call of t's is in progress.
Resting(t) == Executing(t) /\ (t \in Tasks => pc[t] = "user")

\* Outside the kernel it is always the right task that runs: no call or tick
\* ends with another ready task of a higher priority, and a task that has
\* blocked does not go on.
RunsHighest ==
  \A t \in Tasks \cup {Idle} : Resting(t) => ShouldRun(t)

\* Outside the kernel the task that runs is in state RUNNING, as delay_task
\* and the blocking calls require of their caller, and no other task is.
OneRunning ==
  \A t, u \in Tasks \cup {Idle} :
    Resting(t) => (task_state[u] = "RUNNING" <=> u = t)

\* The tasks in the lists of semaphores and queues are blocked: none of them
\* runs its own code.
WaitersDoNotRun ==
  \A t \in Tasks : Resting(t) => \A l \in BlockedLists : ~WaitsFor(t, l)

\* The task that should run gets the processor: schedule() ends, and the
\* context switch it asks for is taken.
HighestGetsCPU ==
  \A t \in Tasks \cup {Idle} :
    Alive /\ ShouldRun(t) ~> curr_task_ptr = t \/ ~ShouldRun(t)

\* A call returns, unless its task stops being the one that should run: a task
\* that was woken out of a send, a receive or a wait gets through the rest of
\* the call.
CallsEnd ==
  \A t \in Tasks : Alive /\ pc[t] # "user" /\ ShouldRun(t)
                  ~> pc[t] = "user" \/ ~ShouldRun(t)
=============================================================================
