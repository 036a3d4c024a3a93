------------------------------- MODULE Queues -------------------------------
(***************************************************************************)
(* queue.c: message queues, a ring buffer with a list of the tasks that    *)
(* wait for a free slot and one of the tasks that wait for a datum.  Unlike*)
(* a token of a semaphore, a datum is not handed over: a woken task tests  *)
(* the queue again, once, and gives up if another task has been faster.    *)
(*                                                                         *)
(* A call is one step up to the schedule() in it, and one from there on,   *)
(* but for set_timer(ms, false), a step of its own.                        *)
(***************************************************************************)
EXTENDS Timers, Integers

CONSTANTS Queues,           \* queue ids (a queue is its struct Queue)
          NoQueue,
          Messages,         \* what a slot can hold
          NoMessage,        \* the content of memory nobody has written, whatever it is
          QueueLengths, SlotSizes,   \* the arguments of create_queue
          Timeouts          \* the ms of send and receive, negative for ever

ASSUME QueuesAssumption ==
  /\ NoQueue \notin Queues
  /\ QueueLengths \subseteq Nat /\ SlotSizes \subseteq Nat
  /\ Timeouts \subseteq Int /\ \A ms \in Timeouts : ms < UINT32_MODULUS
  /\ \A q \in Queues : {<<q, "waiting_to_send_list">>,
                        <<q, "waiting_to_receive_list">>} \subseteq BlockedLists

VARIABLES queue,            \* struct Queue; capacity 0 before create_queue
          buffer,           \* the memory each task passes as data
          request           \* queue and ms of a call that waits

queueVars == <<queue, buffer, request>>

SendList(q) == <<q, "waiting_to_send_list">>
ReceiveList(q) == <<q, "waiting_to_receive_list">>

NoCall == [queue |-> NoQueue, ms |-> 0]

\* room: the slots that fit into the block malloc returned.
EmptyQueue(capacity, room) ==
  [capacity |-> capacity, room |-> room, head |-> 0, tail |-> 0, count |-> 0,
   slots |-> [i \in 0..(capacity - 1) |-> NoMessage]]

-----------------------------------------------------------------------------
(* The ring buffer                                                         *)

Full(q) == queue[q].count = queue[q].capacity
Empty(q) == queue[q].count = 0

WrongTailOverrun(qu, d) ==
  [qu EXCEPT !.slots[qu.tail] = d, !.count = @ + 1,
             !.tail = IF qu.count = 0 THEN @ ELSE (@ + 1) % qu.capacity]

Pushed(qu, d) ==
  [qu EXCEPT !.slots[qu.tail] = d,
             !.tail = (@ + 1) % qu.capacity,
             !.count = @ + 1]

WrongHeadStays(qu) == [qu EXCEPT !.count = @ - 1]

Popped(qu) ==
  [qu EXCEPT !.head = (@ + 1) % qu.capacity,
             !.count = @ - 1]

-----------------------------------------------------------------------------
(* create_queue.  The block has length * size bytes, in 32 bits.           *)

QueueCreator == boot = "main" \/ \E t \in Tasks : Calling(t, "create_queue")

\* It does not look whether the queue is in use.
CreateQueue(q, length, size) ==
  /\ QueueCreator /\ ~wild
  /\ length # 0 /\ size # 0
  /\ queue' = [queue EXCEPT ![q] =
       EmptyQueue(length, ((size * length) % UINT32_MODULUS) \div size)]
  /\ blocked_list' = [blocked_list EXCEPT ![SendList(q)] = <<>>,
                                          ![ReceiveList(q)] = <<>>]
  /\ enable_ctx_sw
  /\ UNCHANGED <<pendsv, listVars, schedVars, timerVars, buffer, request>>

\* malloc returns NULL.
CreateQueueFails ==
  /\ QueueCreator /\ ~wild
  /\ enable_ctx_sw
  /\ UNCHANGED <<pendsv, listVars, blocked_list, schedVars, timerVars, queueVars>>

-----------------------------------------------------------------------------
(* handle_queue_full and handle_queue_empty: the caller waits in list l,   *)
(* and for a positive ms asks for a timer.                                 *)

MayWait(t, ms) == ms # 0 /\ Removable(t)

WaitInQueue(t, q, l, state, ms, resume) ==
  /\ MayWait(t, ms)
  /\ BlockIn(t, l, state)
  /\ request' = [request EXCEPT ![t] = [queue |-> q, ms |-> ms]]
  /\ ret' = [ret EXCEPT ![t] = resume]
  /\ IF ms > 0 THEN disable_ctx_sw /\ Goto(t, "queue_arm")
               ELSE enable_ctx_sw /\ Goto(t, "sched_index")
  /\ UNCHANGED <<pendsv, curr_task_ptr, highest_prio_task_ptr, task_list, idx,
                 picked, boot, wild, timerVars, queue>>

\* The call returns false.
ReturnFalse(t) ==
  /\ enable_ctx_sw
  /\ Goto(t, "user")
  /\ ret' = [ret EXCEPT ![t] = "user"]
  /\ request' = [request EXCEPT ![t] = NoCall]
  /\ UNCHANGED <<pendsv, listVars, blocked_list, task_list, idx, picked, boot,
                 wild, timerVars, queue>>

\* set_timer wants the caller RUNNING, and the caller has just become WAITING:
\* it is refused, and the call returns false with the caller still in the list.
\* Only if the caller was interrupted in between, which the mask is there to
\* prevent, may somebody have woken it.
QueueArm(t) ==
  /\ At(t, "queue_arm")
  /\ IF is_task_delayable(t, request[t].ms) /\ timer_bitmap # {}
     THEN /\ \E id \in TimerIds :
               ArmTimer(t, request[t].ms, id) /\ armed' = Reassigned(id, t)
          /\ enable_ctx_sw
          /\ Goto(t, "sched_index")
          /\ UNCHANGED <<pendsv, listVars, blocked_list, task_list, idx, picked,
                         ret, boot, wild, queue, request>>
     ELSE ReturnFalse(t)
  /\ UNCHANGED buffer

-----------------------------------------------------------------------------
(* handle_queue_new_data and handle_queue_new_slot: the head of list l is  *)
(* woken and the caller schedules; when there is nobody, or the head is    *)
(* not WAITING any more, the call ends.                                    *)

WrongOnlyFirst(l) ==
  blocked_list[l] # <<>> /\ \A q \in Queues : l = ReceiveList(q) => Empty(q)

Awaited(l) == blocked_list[l] # <<>>

Notify(t, l) ==
  /\ enable_ctx_sw
  /\ request' = [request EXCEPT ![t] = NoCall]
  /\ IF Awaited(l) /\ Wakeable(l)
     THEN /\ clear_timer(Head(blocked_list[l]))
          /\ WakeHead(l)
          /\ CallSchedule(t, "queue_exit")
     ELSE /\ Goto(t, "user")
          /\ UNCHANGED <<task_state, ready_list, ready_bitmap, blocked_list,
                         ret, timerVars>>
  /\ UNCHANGED <<pendsv, curr_task_ptr, highest_prio_task_ptr, task_list, idx,
                 picked, boot>>

\* Past the end of the block, memcpy writes or reads outside it.  (The offset
\* tail * size is computed in 32 bits too, so for some sizes such a slot comes
\* to lie on one inside the block; it is taken for wild like the others.)
Push(t, q, d) ==
  /\ queue' = [queue EXCEPT ![q] = Pushed(@, d)]
  /\ wild' = (queue[q].tail >= queue[q].room)
  /\ Notify(t, ReceiveList(q))

Pop(t, q) ==
  /\ buffer' = [buffer EXCEPT ![t] = queue[q].slots[queue[q].head]]
  /\ queue' = [queue EXCEPT ![q] = Popped(@)]
  /\ wild' = (queue[q].head >= queue[q].room)
  /\ Notify(t, SendList(q))

-----------------------------------------------------------------------------
(* send_queue.  Tasks use queues that have been created only.              *)

SendCall(t, q) == Calling(t, "send") /\ queue[q].capacity > 0

SendNow(t, q, d) ==
  /\ SendCall(t, q)
  /\ ~Full(q)
  /\ buffer' = [buffer EXCEPT ![t] = d]
  /\ Push(t, q, d)

SendWait(t, q, d, ms) ==
  /\ SendCall(t, q)
  /\ Full(q)
  /\ buffer' = [buffer EXCEPT ![t] = d]
  /\ WaitInQueue(t, q, SendList(q), "WAITING_SEND", ms, "send_resume")

SendRefused(t, q, ms) ==
  /\ SendCall(t, q)
  /\ Full(q)
  /\ ~MayWait(t, ms)
  /\ ReturnFalse(t)
  /\ UNCHANGED buffer

WrongNoRetest(t, q) ==
  /\ At(t, "send_resume")
  /\ q = request[t].queue
  /\ Push(t, q, buffer[t])
  /\ UNCHANGED buffer

SendResume(t, q) ==
  /\ At(t, "send_resume")
  /\ q = request[t].queue
  /\ IF Full(q) THEN ReturnFalse(t) ELSE Push(t, q, buffer[t])
  /\ UNCHANGED buffer

-----------------------------------------------------------------------------
(* receive_queue                                                           *)

ReceiveCall(t, q) == Calling(t, "receive") /\ queue[q].capacity > 0

ReceiveNow(t, q) ==
  /\ ReceiveCall(t, q)
  /\ ~Empty(q)
  /\ Pop(t, q)

ReceiveWait(t, q, ms) ==
  /\ ReceiveCall(t, q)
  /\ Empty(q)
  /\ WaitInQueue(t, q, ReceiveList(q), "WAITING_RECV", ms, "receive_resume")
  /\ UNCHANGED buffer

ReceiveRefused(t, q, ms) ==
  /\ ReceiveCall(t, q)
  /\ Empty(q)
  /\ ~MayWait(t, ms)
  /\ ReturnFalse(t)
  /\ UNCHANGED buffer

ReceiveResume(t, q) ==
  /\ At(t, "receive_resume")
  /\ q = request[t].queue
  /\ IF Empty(q) THEN ReturnFalse(t) /\ UNCHANGED buffer ELSE Pop(t, q)

\* After the schedule() of a call that has woken a task.
QueueExit(t) ==
  /\ At(t, "queue_exit")
  /\ enable_ctx_sw
  /\ Goto(t, "user")
  /\ UNCHANGED <<pendsv, listVars, blocked_list, task_list, idx, picked, ret,
                 boot, wild, timerVars, queueVars>>

-----------------------------------------------------------------------------
QueueInit ==
  /\ queue = [q \in Queues |-> EmptyQueue(0, 0)]
  /\ buffer = [t \in Tasks |-> NoMessage]
  /\ request = [t \in Tasks |-> NoCall]

Slots ==
  UNION {[0..(length - 1) -> Messages \cup {NoMessage}] : length \in QueueLengths \cup {0}}

Queue == [capacity : QueueLengths \cup {0}, room : Nat, head : Nat, tail : Nat,
          count : Nat, slots : Slots]

QueueTypeOK ==
  /\ queue \in [Queues -> Queue]
  /\ buffer \in [Tasks -> Messages \cup {NoMessage}]
  /\ request \in [Tasks -> [queue : Queues \cup {NoQueue}, ms : Timeouts \cup {0}]]
=============================================================================
