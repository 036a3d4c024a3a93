# ThinKernel in TLA+

ThinKernel is a small preemptive real-time kernel for the ARM Cortex-M4, written
for the STM32F303: tasks with fixed priorities, delays, counting semaphores and
message queues. This directory models it, checks the model with TLC on small
instances and proves the safety properties of the lists and their pointers, the
scheduler, timers, semaphores, queues and the context switch with TLAPS for
instances of any size.
`PROJECT.json` lists the components, the runs, the source lines each definition
models, the hazards, the findings and the theorems.

## 1. The system

| Component | State | Operations | Modelled in |
|---|---|---|---|
| Port: mask and PendSV request (`arm_v7_cortex_m4_cpu.c`) | BASEPRI, `PENDSVSET`, exception priorities | `disable_ctx_sw`, `enable_ctx_sw`, `context_switch`, `get_highest_bitmap_idx`, `init_platform` | `Platform` |
| Context frames (`init_stack`, `pendsv_handler`) | stacks, the registers, PSP, `stack_ptr` of each TCB | initial frame, exception entry and return, save and load | `ContextSwitch`, `TaskContexts` |
| Task lists (`list.c`) | `ready_list[32]`, `ready_bitmap`, the links, state and priority in each TCB, `curr_task_ptr`, `highest_prio_task_ptr` | inserting in and removing from ready and blocked lists, `change_task_state` | `TaskLists`, and the pointers in `LinkedLists` |
| Scheduler and tasks (`core.c`, `task.c`) | `task_list`, `task_bitmap` | `schedule`, `start_thinkernel`, `create_task`, `yield_task`, PendSV | `Scheduler`, relinking of `yield_task` in `LinkedLists` |
| Timers (`timer.c`) | `delay_list` (delta-ordered), the timer pool and its bitmap | `delay_task`, `set_timer`, `clear_timer`, `service_timers` | `Timers`, the pointers in `LinkedLists` |
| Semaphores (`semaphore.c`) | count and wait list of each | `create_semaphore`, `post_semaphore`, `wait_for_semaphore` | `Semaphores`, `CountingSemaphore` |
| Message queues (`queue.c`) | head, tail, count and slots, two wait lists | `create_queue`, `send_queue`, `receive_queue`, with and without a time limit | `Queues`, `MessageQueue` |
| The whole | all of the above | every interleaving of calls, ticks and switches | `Kernel` |
| Startup code, linker script, CMSIS headers, test programs | - | - | see section 6 |

**How they interact.** Everything is global state, shared by three kinds of
actors: the running task, which calls the kernel in its own context; the SysTick
handler, which runs `service_timers` and, when a timer expires, `schedule`; and
the PendSV handler, which copies `highest_prio_task_ptr` to `curr_task_ptr`.
Calls exclude the handlers by writing BASEPRI, and nothing else. Every blocking,
waking or expiring ends in `schedule()`, which picks the head of the highest
ready list, moves it to RUNNING and the old task to PREEMPTED, and pends PendSV.

**What is hard.**
- Whether a critical section is one depends on the width of BASEPRI: the code
  writes 14 unshifted, and on a device with 4 priority bits the register keeps
  the upper 4 of 8 bits, so it reads back as 0 and masks nothing.
- A task runs `schedule()` with interrupts enabled (all callers but
  `post_semaphore` re-enable them before it), and the tick handler runs
  `schedule()` too: two schedulers race on the pointers and on the task states.
- One pair of links in a TCB serves every list, so an operation is correct only
  if the task has left the list it was in.
- `change_task_state` refuses transitions, and only some callers look.
- A post hands its token over; the count and the wait list must agree. A send
  or receive hands nothing over: it wakes a task that has to test the queue
  again, with other tasks in between.
- Full and empty are told apart by `count` alone, while `head` and `tail` say
  where to read and write.
- Delta lists: each insertion, each removal and each tick has to keep the sums.
- The PendSV handler changes stacks halfway through, and the tick may come on
  either side of its `cpsid`/`cpsie`.

**What makes each part correct.** The lists: a task is in one list at most and,
while it is blocked, in one that somebody will take it from; none is lost. The
scheduler: the right task runs. Timers: none is lost or shared, and each counts
its ticks. Semaphores: counting
semaphores with hand-over by priority. Queues: bounded FIFOs in which nobody
sleeps through a datum. Context frames: a task finds its registers and stack as
it left them.

## 2. Modules

| Module | Contents |
|---|---|
| `Platform` | BASEPRI with `NVIC_PRIO_BITS` implemented bits, what it masks, the pending bit |
| `TaskLists` | ready lists, blocked lists, state transitions; no actions of its own |
| `Scheduler` | `schedule()` step by step, PendSV, create, yield, start |
| `Timers` | delay calls, the delta list, the tick |
| `Semaphores` | create, post, wait |
| `Queues` | create, send, receive, and the second half of the calls that wait |
| `Kernel` | the composition: `Init`, `Next`, `Spec`, fairness and all properties |
| `CountingSemaphore`, `MessageQueue` | what `semaphore.c` and `queue.c` promise, without lists, task states or rings; `Kernel` implements them (`TokenSpec`, `FifoSpec`) |
| `LinkedLists` | `next` and `prev`: the list operations on pointers, each shown to be what the other modules take it for |
| `ContextSwitch` | stacks and registers word by word: `init_stack`, the handler, exception entry and return |
| `TaskContexts` | a processor and a stack for each task; `ContextSwitch` implements it |
| `MCKernel`, `MCLinkedLists`, `MCContextSwitch` | values of the constants for TLC |
| `SequenceProofs` | lemmas about sequences, least numbers and running sums |
| `KernelTypeProofs` < `KernelListProofs` < `TimerProofs`, `KernelListProofs` < `SchedulerProofs` < `QueueProofs` | theorems about `Kernel`, each module on top of the one before it; those about semaphores are in `KernelListProofs` |
| `LinkedListProofs` | theorems about `LinkedLists` |
| `ContextProofs` | theorems about `ContextSwitch` |

Each module extends the one it calls: `Platform` < `TaskLists` < `Scheduler` <
`Timers` < `Queues`, `TaskLists` < `Scheduler` < `Semaphores`, and both <
`Kernel`. `LinkedLists` and `ContextSwitch` stand alone: what they need of the
rest of the kernel is a nondeterministic choice of the next operation. An
operator has the name of the C function it stands for where it models one
function; an action is named for a call and its outcome (`WaitTake`, `WaitBlock`
and `WaitRefused` are the three ways `wait_for_semaphore` can go). A definition
`Wrong...` is a mistake the definition below it could contain; it is used by
nothing, and `PROJECT.json` pairs it with the property that tells the two apart.

### State and code

- A task is identified with its TCB. `task_state`, `ready_list`, `ready_bitmap`,
  `curr_task_ptr` and `highest_prio_task_ptr` are the C variables; a linked list
  is the sequence of its tasks from the head, a bitmap the set of its bits.
  `"ABSENT"` is the state of a TCB that `create_task` has not filled in.
- `blocked_list` has an entry for the list head in each semaphore and for the
  two in each queue.
- `pc[t]` says where task `t` is in kernel code. A task executes when it is the
  current one and no unmasked PendSV is pending. `idx` and `picked` are the
  locals of a `schedule()` in progress, `ret` its return address. `armed` is the
  timer a `delay_task` in progress has taken, with the task its `task` field
  holds by now (another one, once it has expired and was taken again); `request` the queue and the time
  limit of a send or receive in progress, `buffer` the memory it was given.
- `queue[q]` is the struct: `capacity`, `head`, `tail`, `count`, `slots`, and
  `room`, the number of slots for which `malloc` got memory.
- `boot` is `"main"` before `start_thinkernel`, then `"kernel"`, or
  `"returned"` when it was started with no ready task. `wild` becomes TRUE at an
  access outside its object (a priority beyond the end of `ready_list`, a NULL
  link, a slot behind the block); nothing is modelled after it, because the C
  program has no defined behaviour there.
- `Calls` is the set of calls the tasks make; a task makes any of them in any
  order, with any argument. Before `start_thinkernel`, `main` may create tasks,
  semaphores and queues.
- In `LinkedLists` a list is its head pointer and the links; NULL has no links,
  and an EXCEPT at NULL changes nothing, as the tests for NULL see to.
- In `ContextSwitch` memory is an array of words. A word is a value with an
  owner (a task's own number, or a constant of the initial frame), so that a
  register that comes back with another task's value, or from another place of
  the frame, is seen. `SysTick` and the tasks' `schedule()` are the action
  `Choose`, which names any next task at any time.

### Granularity

- The critical section of a call is one step, with the mask that is in force
  when it ends. `set_timer` is two, `DelayTask` (arming) and `DelayBlock`
  (leaving the ready list): a tick may run in between if the mask lets it. A
  send or receive is one step up to its `schedule()` and one from there; with a
  time limit `set_timer` (`QueueArm`) is a step between the two.
- `schedule()` in a task is nine steps, one per access to shared state that can
  race: the read of the bitmap, of the list head, the store of
  `highest_prio_task_ptr`, the three checks of `ready_to_running`, the
  store of PREEMPTED, of RUNNING, the request of the switch. Whether
  `change_task_state` is passed the value just stored or a reload of the global
  is the compiler's choice, and a choice in `SchedCheck`. `post_semaphore` runs
  `schedule()` with its mask still set; the steps are the same ones, which the
  tick and PendSV then cannot enter.
- The tick handler is one step: PendSV has the lowest priority and cannot
  preempt it, and tasks do not run meanwhile.
- On 4 bits the mask masks nothing and a real critical section can be
  interrupted anywhere, in the model only between its steps. So the model has
  fewer behaviours than that device, and a violation it shows is real, but a
  property that holds of it with 4 bits would not be shown for timers. For that
  reason no passing run has both 4 bits and timers: without an armed timer the
  tick does nothing, and PendSV is pending only outside critical sections. Runs
  with timers that pass use 8 bits, a width the architecture allows (3 to 8)
  and at which the mask does what its name says.
- In `ContextSwitch` the handler between `cpsid` and `cpsie` is one step, and
  exception entry and return are one each; `Choose` may come between any two.

## 3. Runs

`tlc -config <cfg> MCKernel` for all but two, which are run with the module of
their name. Model values `t1` and `t2` are tasks of priority 0, `t3` and `t4` of
priority 1.

| Run | Instance | Shows |
|---|---|---|
| `sem_device` | 4 bits, 4 tasks, 2 semaphores, `wait` and `post` | `TokenSpec`: the semaphores implement `CountingSemaphore`. `WaitersOrdered`, `NoIdleTokens`, `NoOvertaking`: they are fair within a priority and keep no token. `RunsHighest`, `OneRunning`, `PreemptedKeepsHead`: semaphores alone never leave the wrong task running. `NoTaskLost`: every task stays in a list. `HighestGetsCPU` under `FairSpec` |
| `kernel_masked` | 8 bits, 2 tasks of different priority, every call but `create_queue`, 2 timers, 1 semaphore, 1 queue, with and without time limits | `TypeOK`, `ReadyBitmapExact`, `LinkedOnce`, `BlockedIsLinked`, `RemainingKept`, although the tick's `schedule()` interrupts a task's anywhere |
| `delays_masked` | 8 bits, 3 tasks, 2 timers | `LinkedOnce` and `TimerPoolExact` when there are fewer timers than tasks, and two tasks share a ready list. `LostByExpiryOnly`: the one way in which a task is lost, which this instance reaches |
| `queue_device` | 4 bits, 3 tasks, 1 queue of 1 to 3 slots, 2 messages, `create`, `send` and `receive` with 0 and infinite time limit | `FifoSpec`: the queue implements `MessageQueue`. `RingExact`: head, tail and count agree and stay in the block. `NoIdleWaiters`: for every datum nobody fetches and every free slot nobody fills while somebody waits, a task is on its way. `WaitersDoNotRun`, `NoOvertaking`, and `CallsEnd` under `FairSpec` |
| `context_switch` | 2 tasks and the idle task on stacks of 20 words, side by side in memory (from words 1, 21 and 42), so that two of the three ends are not 8-byte aligned | `ContextSpec`: whatever is switched to whatever at any time, every task has its registers and stack (implements `TaskContexts`); `SavesInOwnStack` |
| `linked_lists` | 4 tasks, 3 timers, 1 wait list | `DoublyLinked`: the two directions of every list agree. `ListsAreSequences`: each operation on pointers is the one on sequences in `TaskLists` and `Timers` |
| `lost_wakeup_device` | 4 bits, delays | violates `BlockedIsLinked`: the tick consumes the timer before its task is in DELAY |
| `tick_race` | 8 bits, delays | violates `RunsHighest`: an interrupted `schedule()` stores a stale choice over the tick's |
| `coincident_delays` | 8 bits, delays | violates `RemainingBounded`: the second of two timers that end together wraps below 0 |
| `lone_yield` | 4 bits, yield and semaphores | violates `OneRunning`: a task that yields to nobody goes on in state READY |
| `queue_timed` | 8 bits, send and receive with a time limit | violates `WaitersDoNotRun`: the call returns false at once, and leaves its caller running, in state WAITING and in the wait list |
| `queue_stolen` | 4 bits, send and receive for ever | violates `ForeverMeansForever`: the slot or datum a task was woken for is taken by another one, and its call gives up |

The last six are disagreements between the code and its comments or names;
`findings` in `PROJECT.json` quotes them.

**The lost task.** `tick_race` has a second consequence, which `delays_masked`
contains. `t1` is interrupted in `schedule()` before it stores RUNNING
(`core.c:35`), with `t2` as its choice. The tick's own `schedule()` runs `t2`,
which delays. `t1` goes on and stores RUNNING for `t2`; when the timer of `t2`
expires, `change_task_state` refuses to wake a task that is not in DELAY, the
timer is gone, and `t2` is in no list any more. So `NoTaskLost` fails in that
instance, and `BlockedIsLinked` does not see it: its condition is the state that
was overwritten. What holds is `LostByExpiryOnly`: this is the only way. No call
loses its caller or the task it wakes, and no other tick loses anybody.
`NoTaskLost` itself holds where no timer is used, and is checked in `sem_device`.

**What `RemainingKept` says.** For each step that changes the delay list: a
`delay_task(ms)` adds a timer with exactly `ms` ticks to go and leaves the
others; a tick takes one tick off every timer and removes the head if that was
its last; a tick that finds a head without any left puts all timers off by the
width of the delay field; and nothing else happens to the list. It does not say
that a delay takes `ms` ticks, which `coincident_delays` refutes. A removal from
the middle (`clear_timer`) cannot happen in these runs, because a queue's
`set_timer` is always refused (`queue_timed`); that its pointers and ticks are
right is in `linked_lists`.

**What is left out of the passing runs.** In the passing runs the properties
they violate are left out where the same fault makes them fail: `RunsHighest`
and `OneRunning` hold with semaphores only (no ticks, no yields), and
`PreemptedKeepsHead` too, because a yield or an expiry can move the head of a
list away from a task that is preempted. `RunsHighest` is also not claimed with
`create` among the calls: `create_task` does not schedule. Where the mask works
it fails for one more reason: `post_semaphore` returns with the mask set, and
the switch it asked for waits for the caller's next kernel call.

**Bounds.** Two priorities suffice to tell higher from equal, and four tasks put
two waiters of each priority in a wait list of a semaphore, the least in which
an insertion can go before, between and behind others of higher, equal and
lower priority. `SEM_MAX` stands for `UINT32_MAX`: at 2 a post reaches
saturation in two steps. `UINT32_MODULUS` is the width of a delay field (8 in
`coincident_delays`, 3 in `kernel_masked`: delays 1 and 2 coincide, differ and
wrap). Two timers against three tasks is a
pool at its limit. A queue of 3 slots fills, empties and wraps while a task
waits, two messages tell order and loss, and two tasks of one priority and one
above can both wait while the third sends or receives (`create` is among the
calls of `queue_device` because a higher task that was there from the start
never leaves the processor to the two while it has not blocked; created later
it finds both in the list). `linked_lists` needs a circular list of three, to
have a task that is neither head nor tail, and a fourth task to take in between
or at another priority. In `context_switch` a stack of 20 words holds the frame
of 17, the padding word and data of the task, in positions of both parities;
`Generations` gives each task values to change its registers to. `MAX_NUM_TASKS`
is 4 (32 in the code) and `MAX_PRIORITY` 4, so that no priority in a run is
beyond the array. All the state is finite without a constraint. `delays_masked`
and `linked_lists` use symmetry in tasks of one priority, and check invariants
and action properties only.

**Fairness.** `FairSpec` assumes weak fairness of two actions: the steps of
kernel code a task is in (`schedule()` and what follows it in a call), because
the processor goes on executing the task it is in, and PendSV, because the
hardware takes a pending exception that is not masked. Nothing is assumed of the
tasks: none has to make a call. For that reason `CallsEnd` and `HighestGetsCPU`
speak of the task that should run, and nothing is claimed of one that has to
wait for another task's post, send or receive.

**Deadlock.** Checked in every run but `kernel_masked`, whose behaviours stop at
a wild access. `TickIdle` is a stutter, so a deadlock elsewhere would be a state
in which no call, no switch and no tick is possible.

## 4. Theorems

For any finite set of tasks, any priorities, any number of list entries, semaphores,
timers and queues, any delays, counts, lengths and time limits, and any number
of priority bits from 3 to 8. The assumptions stated with the constants
(`PrioBitsAssumption`, `TasksAssumption`, `FinitelyManyTasks`,
`SchedulerAssumption`, `TimersAssumption`, `SemaphoresAssumption`,
`QueuesAssumption`, `StacksAssumption`, and `NodesAssumption` and `DelaysAssumption`
of `LinkedLists`) say only what kind of thing each is; what a theorem assumes
beyond them is in its row. `NodesAssumption` takes priorities to be indices of
`ready_list`, as `LinkedLists` has no notion of an access outside it.

| Theorem | Statement | Assumes | Argument |
|---|---|---|---|
| `TypeCorrect` | `Spec => []TypeOK` | - | `TypeInv`: a task whose priority is outside `ready_list` is in no list and behind no pointer, and a task between arming and blocking holds a timer. `TypeOK` alone is not inductive: that the bit a call sets in `ready_bitmap` exists rests on the first, that `return_timer_instance` gets a timer on the second |
| `BitmapCorrect` | `Spec => []ReadyBitmapExact` | - | inductive with `TypeInv`; most steps are `QuietStep`s, which touch no list |
| `LinksCorrect` | `Spec => []LinkedOnce` | - | `LinkInv`. That a task which is made ready is in no list yet is not visible in the lists: the invariant says which lists a task of a given state is not in, and that an unregistered task is in none. It says nothing of RUNNING, READY and PREEMPTED, which an interrupted `schedule()` may store for a task that has just blocked |
| `TokensCorrect` | `Spec => []NoIdleTokens` | - | inductive with `TypeInv` |
| `OrderCorrect` | `Spec => []WaitersOrdered` | - | an insertion at `BlockedPlace` and the removal of a head keep the order |
| `FirstComeFirstServed` | `Spec => NoOvertaking` | - | from `LinkInv` and `WaitersOrdered`: behind the place a task enters, all priorities are lower |
| `TokensImplemented` | `Spec => TokenSpec` | - | step by step from `LinkInv`, `WaitersOrdered`, `NoIdleTokens` and `OnlyExistingAwaited` (nobody waits for a semaphore before it is created, so that creating it takes no waiter away) |
| `FifoImplemented` | `Spec => FifoSpec` | - | step by step from `TypeInv`; a lemma about `slots` and modulo says what one store at `head` or one load at `tail` does to the sequence of data. Where an access leaves the block the model has set `wild`, and the contents are those before it |
| `RingCorrect` | `Spec => []RingExact` | `SizesFit`, `NothingElseWild` | `RingInv`: `wild` is FALSE and every queue has room for its capacity; with it a store or load is inside the block, and how `head`, `tail` and `count` agree is in `TypeInv`. The product of size and length must fit into 32 bits (the multiplication of `create_queue` wraps), priorities must be in range, and no task may yield, which can dereference NULL |
| `NobodySleeps` | `Spec => []NoIdleWaiters` | `SwitchesAtOnce` | `WakeInv`: whoever is in a list of a queue is in the call that put it there, and where somebody waits, there are as many woken tasks that have not looked yet as there are data (or free slots). Send and receive are mirror images (`Due`, `ListOf`, `Other`), and every step is one of five kinds: it touches neither, empties a queue, joins, gives up, or transfers one. That a task which takes a datum was counted, or the datum was not, rests on `SchedInv` and on `LinkInv`: it is in no list |
| `HighestRuns` | `Spec => []RunsHighest` | `SwitchesAtOnce`, no `create` | `SchedInv` says what a `schedule()` in progress knows at each of its steps: that its choice is still the head of the highest list, that the task it found RUNNING is current, which states are already stored. `StatesFit` ties the states to the lists, `NoTimers` keeps the tick out |
| `OneTaskRuns` | `Spec => []OneRunning` | `SwitchesAtOnce` | the same invariant |
| `PreemptedFirst` | `Spec => []PreemptedKeepsHead` | `SwitchesAtOnce` | part of `StatesFit`: a task enters a ready list behind its tail, and the only task that leaves one is the running task, the head |
| `WaitersStopped` | `Spec => []WaitersDoNotRun` | `SwitchesAtOnce` | the task that rests between two calls is ready, and by `LinkInv` in no wait list |
| `BlockedCorrect` | `Spec => []BlockedIsLinked` | `DelaysMasked`, no `create_queue` | `BlockInv`: a task between arming its timer and blocking is current, has the mask set and its timer armed. Then nobody else can take a step (`ArmingAlone`), so the timer is still there when the task enters DELAY. Where no task delays, nobody is in that section |
| `LostByExpiry` | `Spec => LostByExpiryOnly` | `DelaysMasked`, no `create_queue` | from `LinkInv` and `BlockInv`. `LinkedStep`: a step takes a task off the ready and wait lists only to put it into another one or, in `DelayBlock`, with its timer armed. `DelayedStep`: only a tick takes a timer off, and a task in DELAY then enters its ready list |
| `NobodyLost` | `Spec => []NoTaskLost` | `TimersUnused`, no `create_queue` | without an armed timer nothing expires (`NoTimerArmed`), so by `HeldStep` nobody who is in a list leaves all of them, and `create_task` links who is new |
| `PoolCorrect` | `Spec => []TimerPoolExact` | `NVIC_PRIO_BITS >= 5` | `PoolInv`: where a task with an armed timer is. Its state does not tell, since an interrupted `schedule()` may store RUNNING for a task that has blocked; but it is either inside `set_timer`, with the mask set and at the head of its ready list, or in no ready and no wait list until the tick returns its timer. So it cannot ask for a second one, and a waiter that is woken has none to clear |
| `RemainingCorrect` | `Spec => RemainingKept` | `NVIC_PRIO_BITS >= 5` | arithmetic of the delta list: `TotalDelay` is a recursive function, for which `TotalDelayEquation` shows that it exists; `SumsApart` compares two lists that differ at one place, by the least place where the sums would disagree. A tick that finds a head with 0 moves every sum by the modulus less one. `PoolInv` says that only `set_timer` inserts and only a tick takes a timer off the list |
| `PointersCorrect` | `Spec => []DoublyLinked` (of `LinkedLists`) | - | `LinkedInv`: behind every head pointer there is a sequence with which the links agree in both directions, no task or timer is in two, and whatever is in none has NULL links. The sequence is a witness; `WalkFinds` shows, by the least place where it would not, that following `next` from the head finds exactly it. Lemmas about circular and NULL-terminated lists (`RingAppend`, `RingMove`, `ChainInsert`, `ChainRemove`...) say what relinking a node does to its list and that the others keep theirs |
| `PointersRefineSequences` | `Spec => ListsAreSequences` | - | the same lemmas say which sequence comes out. For the delay list also that the ticks `set_timer` has left at a place are those of `TotalDelay`, and that a timer behind the new one or the removed one is given the difference |
| `SavesCorrect` | `Spec => []SavesInOwnStack` | `StacksLargeEnough` | `ContextInv`: below every suspended task's PSP stands a complete frame (`FrameFits`), below the running task's there is room for one, and the stored xPSR remembers whether the entry skipped a word for alignment |
| `ContextsImplemented` | `Spec => ContextSpec` | `StacksLargeEnough` | the same invariant: `LoadStep` and `ReturnStep` undo what `EnterStep` and `SaveStep` did, word by word, and the stacks of others are untouched |

**About the assumptions.** `SwitchesAtOnce` is the STM32F303 as the code drives
it (`NVIC_PRIO_BITS <= 4`: the mask masks nothing, so PendSV is taken when it is
requested) with tasks that use semaphores, and queues without a time limit, and
neither delay nor yield. Each part is needed: `tick_race`, `lone_yield` and
`queue_timed` are the violations without it. `NVIC_PRIO_BITS >= 5` is where 14 keeps a bit and is above the levels of SysTick
and PendSV (`MaskWorks`). The STM32F303 has 4, so for that device the theorems
about timers say what the code would do with the mask repaired; with 4 bits
`lost_wakeup_device` is the counterexample. `DelaysMasked` is that number of
bits, or that no task delays: the second half covers the device as far as it is
used with semaphores and queues only. `TimersUnused` (no delays and no positive
time limits) keeps the tick from expiring anything; with delays the section on
the lost task is the counterexample to `NoTaskLost`, on any number of bits.
`create_queue` on a queue in use overwrites its wait lists and loses who is in
them. `TimerPoolExact` needs the bits too: with 4, a task that has blocked in a
receive with a time limit can be woken before it reaches `set_timer`, where it
then passes for a running task, gets a timer, returns from the call with the timer
armed and may ask for a second one (TLC finds this in the instance of
`kernel_masked` with `NVIC_PRIO_BITS = 4`).
`StacksLargeEnough` is 18 words, the frame and the padding word. The
model's tasks leave that much of their stacks free for it (the guard of
`Push`), since nothing in the kernel checks for an overflow. The other theorems hold with 4
bits as with 8, at the granularity of section 2: `LinksCorrect` in particular
holds although `BlockedIsLinked` and `NoTaskLost` do not (a task can be in too
few lists, never in too many). `BlockedIsLinked` is about what the states say:
it makes no promise about a task whose state was overwritten, for which
`LostByExpiry` is the theorem. `TokenSpec` is about where a token goes that a post
gives: a post that gives none is a stutter of `CountingSemaphore`.

**Only model-checked.** The liveness properties `HighestGetsCPU` and `CallsEnd`,
which need ENABLED and are out of TLAPS's reach. Induction over data is done
without the induction theorems of the library, which take an operator as a
parameter that the installed provers cannot instantiate: a set of
counterexamples has a least element (`LeastNumber`, from the theorems on
well-founded sets, which take sets). For that reason nothing here is a RECURSIVE
operator: `Walk` and the running sums are recursive functions, and lemmas show
that a function with such a definition exists (`WalkExists`, `SumExists`).

## 5. Plan

1. A delay service that wakes every task after its ticks, implemented by
   `Timers` when no two delays end together and no `schedule()` is interrupted
   (`coincident_delays` and the lost task show that it is not otherwise), and its
   refinement proved from `RemainingKept` and `LostByExpiryOnly`.
2. `HighestRuns` with delays and a mask that works: which of its parts survive
   the race of `tick_race`.

## 6. Not modelled

- **Startup code and linker script**: `startup.s` copies `.data`, clears `.bss`
  and calls `main`, once, before there is any kernel state.
- **Vendored headers**: CMSIS and the device header are 15 000 of the
  repository's lines. The kernel uses `__NVIC_PRIO_BITS`, `NVIC_SetPriority` and
  the addresses of registers from them; the first two are in `Platform`, and the
  rest defines no behaviour.
- **Test programs**: pairs of tasks that repeat one or two calls. `Kernel` lets
  tasks make the same calls, in these and all other orders. None of them tests
  queues.
- **The FPU state**: the handler saves no floating point registers, the frame
  `init_stack` builds has none, and `ContextSwitch` has none.
- **What is counted as one step**: see "Granularity". A device with 4 priority
  bits can be interrupted in the middle of a critical section as well; the model
  shows some of the consequences (the violations of `lost_wakeup_device` and
  `lone_yield`), not all of them.
- **Time**: a tick may come at any moment, so that a delay is a number of ticks
  and nothing is said of milliseconds.
- **Offsets in a ring**: `tail * size` and `head * size` wrap in 32 bits as the
  size of the block does. Where that size has wrapped, a slot beyond the block
  may fall back into it; the model takes every such access for one outside
  (`wild`). `RingCorrect` assumes that sizes fit, where the two agree.
- **Which test refused `create_task`**: a NULL task or entry point and a
  misaligned stack have the same effect as a taken id.
- **Code between two stores in one step**: `ready_bitmap` and `ready_list` change
  together in the model, and the moment between the store of RUNNING and the
  request of the switch is not a state that `OneRunning` or `RunsHighest` looks
  at.
- **The contents of messages**: `memcpy` of a slot is an assignment of one value.

Also met on the way and not worth a run:

- `include/thinkernel.h` leaves `struct Queue` incomplete while `create_queue`
  takes a pointer to one: no program outside `src/` can declare a queue.
- `init_stack` takes `stack_size` in words. Its comment says that it aligns the
  stack to 32 bits, the code rounds to 8 bytes.
- The comment on exception entry in `arm_v7_cortex_m4_cpu.s` names the main
  stack pointer: for a task the frame goes to its own stack, by PSP.
