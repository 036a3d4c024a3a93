---------------------------- MODULE QueueProofs ----------------------------
(***************************************************************************)
(* queue.c: the ring buffer with its head, tail and count implements a     *)
(* bounded FIFO, and stays inside the memory create_queue has got for it.  *)
(* Nobody sleeps through a datum or a free slot.                           *)
(***************************************************************************)
EXTENDS SchedulerProofs

(* What a ring buffer holds.                                               *)

\* The slot of the i-th oldest datum, of c slots.
Place(head, c, i) == IF head + i <= c THEN head + i - 1 ELSE head + i - 1 - c

LEMMA PlaceNumbers ==
  ASSUME NEW c \in Nat \ {0}, NEW head \in 0..(c - 1), NEW i \in 1..c
  PROVE  Place(head, c, i) \in 0..(c - 1)
BY DEF Place

\* The datum behind the last one goes to tail, where none of the others is.
LEMMA TailPlace ==
  ASSUME NEW c \in Nat \ {0}, NEW head \in 0..(c - 1), NEW tail \in 0..(c - 1),
         NEW n \in 0..(c - 1), tail = head + n \/ tail + c = head + n
  PROVE  /\ Place(head, c, n + 1) = tail
         /\ \A i \in 1..n : Place(head, c, i) # tail
BY DEF Place

\* When the head moves on, each datum is one nearer to it.
LEMMA HeadPlace ==
  ASSUME NEW c \in Nat \ {0}, NEW head \in 0..(c - 1), NEW new,
         new = IF head + 1 = c THEN 0 ELSE head + 1
  PROVE  /\ Place(head, c, 1) = head
         /\ \A i \in 1..(c - 1) : Place(new, c, i) = Place(head, c, i + 1)
BY DEF Place

LEMMA ContentsElements ==
  ASSUME NEW qu
  PROVE  Contents(qu) = [i \in 1..qu.count |-> qu.slots[Place(qu.head, qu.capacity, i)]]
BY DEF Contents, Place

LEMMA ContentsType ==
  ASSUME NEW qu \in Queue, RingOK(qu)
  PROVE  /\ Contents(qu) \in Seq(Datum)
         /\ Len(Contents(qu)) = qu.count
<1>1. qu.capacity \in Nat /\ qu.count \in 0..qu.capacity
  BY RingNumbers
<1>2. ASSUME NEW i \in 1..qu.count
      PROVE  qu.slots[Place(qu.head, qu.capacity, i)] \in Datum
  <2>1. qu.capacity \in Nat \ {0} /\ i \in 1..qu.capacity
    BY <1>1
  <2>2. qu.head \in 0..(qu.capacity - 1)
    BY <2>1, RingNumbers
  <2>3. Place(qu.head, qu.capacity, i) \in 0..(qu.capacity - 1)
    BY <2>1, <2>2, PlaceNumbers
  <2> QED
    BY <2>3 DEF RingOK
<1>3. Contents(qu) \in [1..qu.count -> Datum]
  BY <1>2, ContentsElements
<1> QED
  BY <1>1, <1>3

LEMMA EmptyContents ==
  ASSUME NEW capacity, NEW room
  PROVE  Contents(EmptyQueue(capacity, room)) = <<>>
<1>1. EmptyQueue(capacity, room).count = 0
  BY DEF EmptyQueue
<1> QED
  BY <1>1 DEF Contents

LEMMA PushedContents ==
  ASSUME NEW qu \in Queue, RingOK(qu), qu.count # qu.capacity, NEW d \in Datum
  PROVE  Contents(Pushed(qu, d)) = Append(Contents(qu), d)
<1> DEFINE c == qu.capacity
           n == qu.count
           new == Pushed(qu, d)
           place(i) == Place(qu.head, c, i)
<1>1. /\ c \in Nat \ {0} /\ n \in 0..(c - 1)
      /\ qu.head \in 0..(c - 1) /\ qu.tail \in 0..(c - 1)
      /\ qu.tail = qu.head + n \/ qu.tail + c = qu.head + n
  BY RingNumbers DEF RingOK
<1>2. /\ new \in Queue /\ RingOK(new)
      /\ new.capacity = c /\ new.head = qu.head /\ new.count = n + 1
      /\ new.slots = [qu.slots EXCEPT ![qu.tail] = d]
  BY PushedType, PushedFields
<1>3. /\ place(n + 1) = qu.tail
      /\ \A i \in 1..n : place(i) # qu.tail /\ place(i) \in 0..(c - 1)
  <2>1. place(n + 1) = qu.tail /\ \A i \in 1..n : place(i) # qu.tail
    <3> HIDE DEF c, n
    <3> QED
      BY <1>1, TailPlace
  <2>2. \A i \in 1..n : i \in 1..c /\ place(i) \in 0..(c - 1)
    <3> HIDE DEF c, n
    <3> QED
      BY <1>1, PlaceNumbers
  <2> QED
    BY <2>1, <2>2
<1>4. qu.slots \in [0..(c - 1) -> Datum]
  BY DEF RingOK
<1>5. /\ new.slots[qu.tail] = d
      /\ \A k \in 0..(c - 1) : k # qu.tail => new.slots[k] = qu.slots[k]
  BY <1>1, <1>2, <1>4
<1>6. /\ Contents(qu) \in Seq(Datum) /\ Len(Contents(qu)) = n
      /\ \A i \in 1..n : Contents(qu)[i] = qu.slots[place(i)]
  BY ContentsType, ContentsElements
<1>7. /\ Contents(new) \in Seq(Datum) /\ Len(Contents(new)) = n + 1
      /\ \A i \in 1..(n + 1) : Contents(new)[i] = new.slots[place(i)]
  BY <1>2, ContentsType, ContentsElements
<1> HIDE DEF c, n, new, place
<1>8. \A i \in 1..n : Contents(new)[i] = Contents(qu)[i]
  BY <1>1, <1>3, <1>5, <1>6, <1>7
<1>9. Contents(new)[n + 1] = d
  BY <1>1, <1>3, <1>5, <1>7
<1>10. /\ Append(Contents(qu), d) \in Seq(Datum)
       /\ Len(Append(Contents(qu), d)) = n + 1
       /\ \A i \in 1..n : Append(Contents(qu), d)[i] = Contents(qu)[i]
       /\ Append(Contents(qu), d)[n + 1] = d
  BY <1>6, AppendProperties
<1>11. \A i \in 1..(n + 1) : Contents(new)[i] = Append(Contents(qu), d)[i]
  BY <1>1, <1>8, <1>9, <1>10
<1>12. Contents(new) = Append(Contents(qu), d)
  BY <1>7, <1>10, <1>11, SeqEqual
<1> QED
  BY <1>12 DEF new

LEMMA PoppedContents ==
  ASSUME NEW qu \in Queue, RingOK(qu), qu.count # 0
  PROVE  /\ Contents(Popped(qu)) = Tail(Contents(qu))
         /\ qu.slots[qu.head] = Head(Contents(qu))
         /\ Contents(qu) # <<>>
<1> DEFINE c == qu.capacity
           n == qu.count
           new == Popped(qu)
<1>1. /\ c \in Nat \ {0} /\ n \in 1..c /\ qu.head \in 0..(c - 1)
  BY RingNumbers
<1>2. /\ new \in Queue /\ RingOK(new)
      /\ new.capacity = c /\ new.count = n - 1 /\ new.slots = qu.slots
      /\ new.head = (qu.head + 1) % c
  BY PoppedType, PoppedFields
<1>3. new.head = IF qu.head + 1 = c THEN 0 ELSE qu.head + 1
  BY <1>1, <1>2, NextSlot
<1>4. /\ Place(qu.head, c, 1) = qu.head
      /\ \A i \in 1..(c - 1) : Place(new.head, c, i) = Place(qu.head, c, i + 1)
  BY <1>1, <1>3, HeadPlace
<1>5. /\ Contents(qu) \in Seq(Datum) /\ Len(Contents(qu)) = n
      /\ \A i \in 1..n : Contents(qu)[i] = qu.slots[Place(qu.head, c, i)]
  BY ContentsType, ContentsElements
<1>6. /\ Contents(new) \in Seq(Datum) /\ Len(Contents(new)) = n - 1
      /\ \A i \in 1..(n - 1) : Contents(new)[i] = qu.slots[Place(new.head, c, i)]
  BY <1>2, ContentsType, ContentsElements
<1> HIDE DEF c, n, new
<1>7. Contents(qu) # <<>> /\ Head(Contents(qu)) = Contents(qu)[1]
  BY <1>1, <1>5, HeadTailProperties
<1>8. /\ Tail(Contents(qu)) \in Seq(Datum) /\ Len(Tail(Contents(qu))) = n - 1
      /\ \A i \in 1..(n - 1) : Tail(Contents(qu))[i] = Contents(qu)[i + 1]
  BY <1>1, <1>5, <1>7, HeadTailProperties
<1>9. \A i \in 1..(n - 1) : Contents(new)[i] = Tail(Contents(qu))[i]
  BY <1>1, <1>4, <1>5, <1>6, <1>8
<1>10. Contents(new) = Tail(Contents(qu))
  BY <1>6, <1>8, <1>9, SeqEqual
<1> QED
  BY <1>1, <1>4, <1>5, <1>7, <1>10 DEF new

-----------------------------------------------------------------------------
(* The steps of the abstract queue.                                        *)

LEMMA PushSends ==
  ASSUME TypeInv, NEW t \in Tasks, NEW q \in Queues, NEW d \in Datum, ~Full(q),
         Push(t, q, d), buffer'[t] = d,
         \/ \E m \in Messages : buffer' = [buffer EXCEPT ![t] = m]
         \/ UNCHANGED buffer
  PROVE  Fifo!Send(t, q)
<1> DEFINE new == Pushed(queue[q], d)
<1>1. /\ queue \in [Queues -> {qu \in Queue : RingOK(qu)}]
      /\ queue[q] \in Queue /\ RingOK(queue[q]) /\ queue[q].count # queue[q].capacity
  BY DEF TypeInv, CommTypeInv, Full
<1>2. Contents(new) = Append(Contents(queue[q]), d) /\ new.capacity = queue[q].capacity
  BY <1>1, PushedContents, PushedFields
<1>3. Len(Contents(queue[q])) < queue[q].capacity
  BY <1>1, ContentsType, RingNumbers
<1>4. \A r \in Queues : queue'[r] = IF r = q THEN new ELSE queue[r]
  BY <1>1 DEF Push
<1> HIDE DEF new
<1>5. \A r \in Queues :
        /\ Contents(queue'[r]) = IF r = q THEN Contents(new) ELSE Contents(queue[r])
        /\ queue'[r].capacity = IF r = q THEN new.capacity ELSE queue[r].capacity
  BY <1>4
<1>6. [r \in Queues |-> Contents(queue[r])]'
        = [[r \in Queues |-> Contents(queue[r])] EXCEPT
             ![q] = Append(Contents(queue[q]), d)]
  BY <1>2, <1>5
<1>7. [r \in Queues |-> queue[r].capacity]' = [r \in Queues |-> queue[r].capacity]
  BY <1>2, <1>5
<1> QED
  BY <1>3, <1>6, <1>7 DEF Fifo!Send

LEMMA PopReceives ==
  ASSUME TypeInv, NEW t \in Tasks, NEW q \in Queues, ~Empty(q), Pop(t, q)
  PROVE  Fifo!Receive(t, q)
<1> DEFINE new == Popped(queue[q])
<1>1. /\ queue \in [Queues -> {qu \in Queue : RingOK(qu)}]
      /\ queue[q] \in Queue /\ RingOK(queue[q]) /\ queue[q].count # 0
  BY DEF TypeInv, CommTypeInv, Empty
<1>2. /\ Contents(new) = Tail(Contents(queue[q])) /\ new.capacity = queue[q].capacity
      /\ queue[q].slots[queue[q].head] = Head(Contents(queue[q]))
      /\ Contents(queue[q]) # <<>>
  BY <1>1, PoppedContents, PoppedFields
<1>3. /\ \A r \in Queues : queue'[r] = IF r = q THEN new ELSE queue[r]
      /\ buffer' = [buffer EXCEPT ![t] = Head(Contents(queue[q]))]
  BY <1>1, <1>2 DEF Pop
<1> HIDE DEF new
<1>4. \A r \in Queues :
        /\ Contents(queue'[r]) = IF r = q THEN Contents(new) ELSE Contents(queue[r])
        /\ queue'[r].capacity = IF r = q THEN new.capacity ELSE queue[r].capacity
  BY <1>3
<1>5. [r \in Queues |-> Contents(queue[r])]'
        = [[r \in Queues |-> Contents(queue[r])] EXCEPT ![q] = Tail(Contents(queue[q]))]
  BY <1>2, <1>4
<1>6. [r \in Queues |-> queue[r].capacity]' = [r \in Queues |-> queue[r].capacity]
  BY <1>2, <1>4
<1> QED
  BY <1>2, <1>3, <1>5, <1>6 DEF Fifo!Receive

LEMMA CreateCreates ==
  ASSUME TypeInv, NEW q \in Queues, NEW length \in QueueLengths, NEW size \in SlotSizes,
         CreateQueue(q, length, size)
  PROVE  Fifo!Create(q)
<1>1. length \in QueueLengths \ {0} /\ UNCHANGED buffer
  BY DEF CreateQueue
<1>2. \A r \in Queues :
        /\ Contents(queue'[r]) = IF r = q THEN <<>> ELSE Contents(queue[r])
        /\ queue'[r].capacity = IF r = q THEN length ELSE queue[r].capacity
  <2> PICK room : queue' = [queue EXCEPT ![q] = EmptyQueue(length, room)]
    BY DEF CreateQueue
  <2>1. EmptyQueue(length, room).capacity = length
    BY DEF EmptyQueue
  <2>2. Contents(EmptyQueue(length, room)) = <<>>
    BY EmptyContents
  <2>3. \A r \in Queues : queue'[r] = IF r = q THEN EmptyQueue(length, room) ELSE queue[r]
    BY DEF TypeInv, CommTypeInv
  <2> QED
    BY <2>1, <2>2, <2>3
<1>3. [r \in Queues |-> Contents(queue[r])]'
        = [[r \in Queues |-> Contents(queue[r])] EXCEPT ![q] = <<>>]
  BY <1>2
<1>4. [r \in Queues |-> queue[r].capacity]'
        = [[r \in Queues |-> queue[r].capacity] EXCEPT ![q] = length]
  BY <1>2
<1> QED
  BY <1>1, <1>3, <1>4 DEF Fifo!Create

LEMMA PrepareMaps ==
  ASSUME NEW t \in Tasks, NEW q, NEW d \in Messages, NEW ms, SendWait(t, q, d, ms)
  PROVE  Fifo!Prepare(t)
BY DEF SendWait, WaitInQueue, Fifo!Prepare

LEMMA FifoStep ==
  ASSUME TypeInv, [Next]_vars
  PROVE  Fifo!Next \/ UNCHANGED <<queue, buffer>>
<1> USE DEF queueVars
<1>1. CASE SchedulerStep \/ TimerStep \/ SemaphoreStep \/ UNCHANGED vars
  BY <1>1 DEF SchedulerStep, TimerStep, SemaphoreStep, vars
<1>2. ASSUME NEW q \in Queues, NEW length \in QueueLengths, NEW size \in SlotSizes,
             CreateQueue(q, length, size)
      PROVE  Fifo!Next
  BY <1>2, CreateCreates DEF Fifo!Next
<1>3. ASSUME NEW t \in Tasks, NEW q \in Queues, NEW d \in Messages, SendNow(t, q, d)
      PROVE  Fifo!Next
  <2>1. d \in Datum /\ buffer' = [buffer EXCEPT ![t] = d] /\ buffer'[t] = d
    BY <1>3 DEF SendNow, Datum, TypeInv, CommTypeInv
  <2>2. Fifo!Send(t, q)
    BY <1>3, <2>1, PushSends DEF SendNow
  <2> QED
    BY <2>2 DEF Fifo!Next
<1>4. ASSUME NEW t \in Tasks, NEW q \in Queues, NEW d \in Messages, NEW ms,
             SendWait(t, q, d, ms)
      PROVE  Fifo!Next
  BY <1>4, PrepareMaps DEF Fifo!Next
<1>5. ASSUME NEW t \in Tasks, NEW q \in Queues, ReceiveNow(t, q)
      PROVE  Fifo!Next
  BY <1>5, PopReceives DEF ReceiveNow, Fifo!Next
<1>6. ASSUME NEW t \in Tasks, NEW q \in Queues, SendResume(t, q)
      PROVE  Fifo!Next \/ UNCHANGED <<queue, buffer>>
  <2>1. CASE Full(q)
    BY <1>6, <2>1 DEF SendResume, ReturnFalse
  <2>2. CASE ~Full(q)
    <3>1. Push(t, q, buffer[t]) /\ UNCHANGED buffer /\ buffer[t] \in Datum
      BY <1>6, <2>2 DEF SendResume, TypeInv, CommTypeInv
    <3>2. Fifo!Send(t, q)
      BY <2>2, <3>1, PushSends
    <3> QED
      BY <3>2 DEF Fifo!Next
  <2> QED
    BY <2>1, <2>2
<1>7. ASSUME NEW t \in Tasks, NEW q \in Queues, ReceiveResume(t, q)
      PROVE  Fifo!Next \/ UNCHANGED <<queue, buffer>>
  <2>1. CASE Empty(q)
    BY <1>7, <2>1 DEF ReceiveResume, ReturnFalse
  <2>2. CASE ~Empty(q)
    BY <1>7, <2>2, PopReceives DEF ReceiveResume, Fifo!Next
  <2> QED
    BY <2>1, <2>2
<1>8. ASSUME NEW t \in Tasks, NEW q \in Queues, NEW ms \in Timeouts,
             SendRefused(t, q, ms) \/ ReceiveRefused(t, q, ms) \/ ReceiveWait(t, q, ms)
      PROVE  UNCHANGED <<queue, buffer>>
  BY <1>8 DEF SendRefused, ReceiveRefused, ReceiveWait, ReturnFalse, WaitInQueue
<1>9. ASSUME NEW t \in Tasks, QueueArm(t) \/ QueueExit(t)
      PROVE  UNCHANGED <<queue, buffer>>
  BY <1>9 DEF QueueArm, QueueExit, ReturnFalse
<1>10. CASE CreateQueueFails
  BY <1>10 DEF CreateQueueFails
<1> QED
  BY <1>1, <1>2, <1>3, <1>4, <1>5, <1>6, <1>7, <1>8, <1>9, <1>10 DEF Next, QueueStep

LEMMA FifoInit == Init => Fifo!Init
<1> SUFFICES ASSUME Init PROVE Fifo!Init
  OBVIOUS
<1>1. \A q \in Queues : queue[q] = EmptyQueue(0, 0)
  BY DEF Init, QueueInit
<1>2. Contents(EmptyQueue(0, 0)) = <<>> /\ EmptyQueue(0, 0).capacity = 0
  <2>1. EmptyQueue(0, 0).capacity = 0
    BY DEF EmptyQueue
  <2> QED
    BY <2>1, EmptyContents
<1> QED
  BY <1>1, <1>2 DEF Init, QueueInit, Fifo!Init

\* queue.c implements the bounded FIFO of MessageQueue: whatever the tasks and
\* the tick do between the two halves of a call, what is sent is received once,
\* in order and unchanged.
THEOREM FifoImplemented == Spec => FifoSpec
<1>1. TypeInv /\ [Next]_vars => [Fifo!Next]_<<[q \in Queues |-> Contents(queue[q])],
                                            [q \in Queues |-> queue[q].capacity], buffer>>
  BY FifoStep
<1> QED
  BY <1>1, FifoInit, TypeInvariance, PTL DEF Spec, FifoSpec, Fifo!Spec

-----------------------------------------------------------------------------
(* The memory of the ring buffer.                                          *)

\* The product in create_queue does not wrap.
SizesFit ==
  \A length \in QueueLengths, size \in SlotSizes : size * length < UINT32_MODULUS

\* What else could get the kernel outside its objects: see CreateTask, YieldTask.
NothingElseWild ==
  /\ \A t \in Tasks : Priority[t] < MAX_NUM_TASKS
  /\ Calls \cap {"yield", "yield_other"} = {}

RingInv ==
  /\ wild = FALSE
  /\ \A q \in Queues : queue[q].capacity <= queue[q].room

LEMMA RoomNumbers ==
  ASSUME NEW length \in Nat, NEW size \in Nat \ {0}, NEW modulus \in Nat,
         size * length < modulus
  PROVE  ((size * length) % modulus) \div size = length
<1>1. size * length \in Nat
  OBVIOUS
<1>2. (size * length) % modulus = size * length
  BY <1>1
<1>3. (size * length) \div size = length
  OBVIOUS
<1> QED
  BY <1>2, <1>3

LEMMA RingInvImpliesRingExact == TypeInv /\ RingInv => RingExact
BY DEF TypeInv, CommTypeInv, RingInv, RingExact, RingOK

\* Where neither wild nor a queue changes.
LEMMA WildKept ==
  ASSUME NothingElseWild, SchedulerStep \/ TimerStep \/ SemaphoreStep
  PROVE  UNCHANGED <<wild, queue>>
<1> USE DEF schedVars, queueVars
<1>1. CASE SchedulerStep
  <2>1. ASSUME NEW t \in Tasks, Schedule(t) PROVE UNCHANGED wild
    BY <2>1 DEF Schedule, SchedIndex, SchedLoad, SchedStore, SchedCheck, SchedCurrent,
                SchedMatch, SchedPreempt, SchedCommit, SchedSwitch
  <2>2. ASSUME NEW u \in Tasks, CreateTask(u) \/ CreateRefused(u) PROVE UNCHANGED wild
    <3>1. Priority[u] \in Priorities
      BY TasksAssumption DEF NothingElseWild, Priorities
    <3> QED
      BY <2>2, <3>1 DEF CreateTask, CreateRefused
  <2>3. ASSUME NEW t \in Tasks, NEW u \in Tasks, YieldTask(t, u) \/ YieldRefused(t, u)
        PROVE  FALSE
    BY <2>3 DEF YieldTask, YieldRefused, YieldCall, Calling, NothingElseWild
  <2>4. PendSV \/ StartKernel => UNCHANGED wild
    BY DEF PendSV, StartKernel
  <2> QED
    BY <1>1, <2>1, <2>2, <2>3, <2>4 DEF SchedulerStep
<1>2. CASE TimerStep
  <2>1. ASSUME NEW t \in Tasks, NEW ms \in Delays, DelayTask(t, ms) \/ DelayRefused(t, ms)
        PROVE  UNCHANGED wild
    BY <2>1 DEF DelayTask, DelayRefused
  <2>2. ASSUME NEW t \in Tasks, DelayBlock(t) \/ DelayExit(t)
        PROVE  UNCHANGED wild
    BY <2>2 DEF DelayBlock, DelayExit
  <2>3. TickIdle \/ TickCount \/ TickExpire => UNCHANGED wild
    BY DEF TickIdle, TickCount, TickExpire
  <2> QED
    BY <1>2, <2>1, <2>2, <2>3 DEF TimerStep
<1>3. CASE SemaphoreStep
  <2>1. ASSUME NEW s \in Semaphores, NEW v \in InitialCounts, CreateSemaphore(s, v)
        PROVE  UNCHANGED wild
    BY <2>1 DEF CreateSemaphore
  <2>2. ASSUME NEW s \in Semaphores, CreateSemaphoreRefused(s)
        PROVE  UNCHANGED wild
    BY <2>2 DEF CreateSemaphoreRefused
  <2>3. ASSUME NEW t \in Tasks, NEW s \in Semaphores,
               \/ PostCount(t, s) \/ PostWake(t, s) \/ PostRefused(t, s)
               \/ WaitTake(t, s) \/ WaitBlock(t, s) \/ WaitRefused(t, s)
        PROVE  UNCHANGED wild
    BY <2>3 DEF PostCount, PostWake, PostRefused, WaitTake, WaitBlock, WaitRefused
  <2> QED
    BY <1>3, <2>1, <2>2, <2>3 DEF SemaphoreStep
<1> QED
  BY <1>1, <1>2, <1>3 DEF SchedulerStep, TimerStep, SemaphoreStep

LEMMA PushInBlock ==
  ASSUME TypeInv, RingInv, NEW t, NEW q \in Queues, NEW d, ~Full(q), Push(t, q, d)
  PROVE  RingInv'
<1>1. /\ queue[q] \in Queue /\ RingOK(queue[q]) /\ queue[q].count # queue[q].capacity
  BY DEF TypeInv, CommTypeInv, Full
<1>2. queue[q].capacity \in Nat /\ queue[q].room \in Nat /\ queue[q].tail < queue[q].capacity
  BY <1>1, RingNumbers DEF RingOK
<1>3. queue[q].tail \in Nat /\ queue[q].capacity <= queue[q].room
  BY <1>1 DEF Queue, RingInv
<1>4. wild' = FALSE
  <2>1. (queue[q].tail >= queue[q].room) = FALSE
    BY <1>2, <1>3
  <2> QED
    BY <2>1, Zenon DEF Push
<1>5. /\ Pushed(queue[q], d).capacity = queue[q].capacity
      /\ Pushed(queue[q], d).room = queue[q].room
  BY <1>1, PushedFields
<1>6. \A r \in Queues : queue'[r] = IF r = q THEN Pushed(queue[q], d) ELSE queue[r]
  BY DEF Push, TypeInv, CommTypeInv
<1> QED
  BY <1>4, <1>5, <1>6 DEF RingInv

LEMMA PopInBlock ==
  ASSUME TypeInv, RingInv, NEW t, NEW q \in Queues, ~Empty(q), Pop(t, q)
  PROVE  RingInv'
<1>1. /\ queue[q] \in Queue /\ RingOK(queue[q]) /\ queue[q].count # 0
  BY DEF TypeInv, CommTypeInv, Empty
<1>2. queue[q].capacity \in Nat /\ queue[q].room \in Nat /\ queue[q].head < queue[q].capacity
  BY <1>1, RingNumbers DEF RingOK
<1>3. queue[q].head \in Nat /\ queue[q].capacity <= queue[q].room
  BY <1>1 DEF Queue, RingInv
<1>4. wild' = FALSE
  <2>1. (queue[q].head >= queue[q].room) = FALSE
    BY <1>2, <1>3
  <2> QED
    BY <2>1, Zenon DEF Pop
<1>5. /\ Popped(queue[q]).capacity = queue[q].capacity
      /\ Popped(queue[q]).room = queue[q].room
  BY <1>1, PoppedFields
<1>6. \A r \in Queues : queue'[r] = IF r = q THEN Popped(queue[q]) ELSE queue[r]
  BY DEF Pop, TypeInv, CommTypeInv
<1> QED
  BY <1>4, <1>5, <1>6 DEF RingInv

LEMMA CreateInBlock ==
  ASSUME SizesFit, TypeInv, RingInv, NEW q \in Queues, NEW length \in QueueLengths,
         NEW size \in SlotSizes, CreateQueue(q, length, size)
  PROVE  RingInv'
<1> DEFINE room == ((size * length) % UINT32_MODULUS) \div size
<1>1. /\ length \in Nat /\ size \in Nat \ {0} /\ UINT32_MODULUS \in Nat
      /\ size * length < UINT32_MODULUS
  BY QueuesAssumption, TimersAssumption DEF SizesFit, CreateQueue
<1>2. room = length
  BY <1>1, RoomNumbers
<1>3. queue' = [queue EXCEPT ![q] = EmptyQueue(length, room)] /\ UNCHANGED wild
  BY DEF CreateQueue, schedVars
<1> HIDE DEF room
<1>4. EmptyQueue(length, room).capacity = length /\ EmptyQueue(length, room).room = room
  BY DEF EmptyQueue
<1>5. \A r \in Queues : queue'[r] = IF r = q THEN EmptyQueue(length, room) ELSE queue[r]
  BY <1>3 DEF TypeInv, CommTypeInv
<1> QED
  BY <1>1, <1>2, <1>3, <1>4, <1>5 DEF RingInv

LEMMA RingStep ==
  ASSUME SizesFit, NothingElseWild, TypeInv, RingInv, [Next]_vars
  PROVE  RingInv'
<1>0. UNCHANGED <<wild, queue>> => RingInv'
  BY DEF RingInv
<1>1. CASE SchedulerStep \/ TimerStep \/ SemaphoreStep \/ UNCHANGED vars
  BY <1>0, <1>1, WildKept DEF vars, schedVars, queueVars
<1>2. ASSUME NEW q \in Queues, NEW length \in QueueLengths, NEW size \in SlotSizes,
             CreateQueue(q, length, size)
      PROVE  RingInv'
  BY <1>2, CreateInBlock
<1>3. ASSUME NEW t \in Tasks, NEW q \in Queues, NEW d \in Messages, SendNow(t, q, d)
      PROVE  RingInv'
  BY <1>3, PushInBlock DEF SendNow
<1>4. ASSUME NEW t \in Tasks, NEW q \in Queues, ReceiveNow(t, q)
      PROVE  RingInv'
  BY <1>4, PopInBlock DEF ReceiveNow
<1>5. ASSUME NEW t \in Tasks, NEW q \in Queues, SendResume(t, q)
      PROVE  RingInv'
  BY <1>0, <1>5, PushInBlock DEF SendResume, ReturnFalse
<1>6. ASSUME NEW t \in Tasks, NEW q \in Queues, ReceiveResume(t, q)
      PROVE  RingInv'
  BY <1>0, <1>6, PopInBlock DEF ReceiveResume, ReturnFalse
<1>7. ASSUME NEW t \in Tasks, NEW q \in Queues, NEW ms \in Timeouts,
             SendRefused(t, q, ms) \/ ReceiveRefused(t, q, ms) \/ ReceiveWait(t, q, ms)
      PROVE  RingInv'
  BY <1>0, <1>7 DEF SendRefused, ReceiveRefused, ReceiveWait, ReturnFalse, WaitInQueue
<1>8. ASSUME NEW t \in Tasks, NEW q \in Queues, NEW d \in Messages, NEW ms \in Timeouts,
             SendWait(t, q, d, ms)
      PROVE  RingInv'
  BY <1>0, <1>8 DEF SendWait, WaitInQueue
<1>9. ASSUME NEW t \in Tasks, QueueArm(t) \/ QueueExit(t)
      PROVE  RingInv'
  BY <1>0, <1>9 DEF QueueArm, QueueExit, ReturnFalse, queueVars
<1>10. CASE CreateQueueFails
  BY <1>0, <1>10 DEF CreateQueueFails, schedVars, queueVars
<1> QED
  BY <1>1, <1>2, <1>3, <1>4, <1>5, <1>6, <1>7, <1>8, <1>9, <1>10 DEF Next, QueueStep

\* If the byte counts of create_queue fit into 32 bits, and no other call gets
\* the kernel outside its objects, sends and receives stay inside the block of
\* their queue and its three counters agree.
THEOREM RingCorrect ==
  ASSUME SizesFit, NothingElseWild
  PROVE  Spec => []RingExact
<1>1. Init => RingInv
  <2> SUFFICES ASSUME Init PROVE RingInv
    OBVIOUS
  <2>1. \A q \in Queues : queue[q] = EmptyQueue(0, 0)
    BY DEF Init, QueueInit
  <2>2. EmptyQueue(0, 0).capacity = 0 /\ EmptyQueue(0, 0).room = 0
    BY DEF EmptyQueue
  <2> QED
    BY <2>1, <2>2 DEF RingInv, Init, SchedInit
<1>2. TypeInv /\ RingInv /\ [Next]_vars => RingInv'
  BY RingStep
<1> QED
  BY <1>1, <1>2, TypeInvariance, RingInvImpliesRingExact, PTL DEF Spec

-----------------------------------------------------------------------------
(***************************************************************************)
(* Nobody sleeps through a datum or a free slot.  A send and a receive are *)
(* mirror images: a call that resumes at resume waits in ListOf(q, resume) *)
(* for what there is Due(q, resume) of.                                    *)
(***************************************************************************)
Resumes == {"send_resume", "receive_resume"}

Other(resume) == IF resume = "send_resume" THEN "receive_resume" ELSE "send_resume"

ListOf(q, resume) == IF resume = "send_resume" THEN SendList(q) ELSE ReceiveList(q)

Due(q, resume) ==
  IF resume = "send_resume" THEN queue[q].capacity - queue[q].count ELSE queue[q].count

OnCall(t, q, resume) == resume \in {pc[t], ret[t]} /\ request[t].queue = q

\* The tasks that were woken for what there is in q.
Coming(q, resume) == {t \in Tasks : OnCall(t, q, resume) /\ ~WaitsFor(t, ListOf(q, resume))}

Served(q, resume) ==
  blocked_list[ListOf(q, resume)] # <<>> => Due(q, resume) <= Cardinality(Coming(q, resume))

\* A task in a list of a queue is in the middle of the call it waits for.
WaitersCall ==
  \A q \in Queues, resume \in Resumes, t \in Tasks :
    WaitsFor(t, ListOf(q, resume)) => OnCall(t, q, resume)

\* Outside schedule() ret is dead.
ReturnsSpent == \A t \in Tasks : pc[t] \in ReturnPC => ret[t] = "user"

WaitersExist == \A t \in Tasks : Waits(t) => task_state[t] # "ABSENT"

AllServed == \A q \in Queues, resume \in Resumes : Served(q, resume)

WakeInv == WaitersCall /\ ReturnsSpent /\ WaitersExist /\ AllServed

LEMMA AllServedExact == AllServed <=> NoIdleWaiters
<1>1. ASSUME NEW q \in Queues
      PROVE  /\ Coming(q, "send_resume") = Woken(q, SendList(q), "send_resume")
             /\ Coming(q, "receive_resume") = Woken(q, ReceiveList(q), "receive_resume")
  BY DEF Coming, Woken, OnCall, ListOf
<1> QED
  BY <1>1 DEF AllServed, Served, NoIdleWaiters, Resumes, Due, ListOf

\* The lists of the queues are different.
LEMMA ListsApart ==
  ASSUME NEW q, NEW r, NEW x \in Resumes, NEW y \in Resumes, NEW s
  PROVE  /\ ListOf(q, x) = ListOf(r, y) => q = r /\ x = y
         /\ ListOf(q, x) # WaitList(s)
BY DEF ListOf, SendList, ReceiveList, WaitList, Resumes

LEMMA ListOfKnown ==
  ASSUME NEW q \in Queues, NEW x \in Resumes
  PROVE  ListOf(q, x) \in BlockedLists
BY QueueListsKnown DEF ListOf

LEMMA ComingNumbers ==
  ASSUME NEW q, NEW x
  PROVE  IsFiniteSet(Coming(q, x)) /\ Cardinality(Coming(q, x)) \in Nat
BY FinitelyManyTasks, FS_Subset, FS_CardinalityType DEF Coming

LEMMA DueNumbers ==
  ASSUME TypeInv, NEW q \in Queues, NEW x \in Resumes
  PROVE  Due(q, x) \in Nat
<1>1. queue[q] \in Queue /\ RingOK(queue[q])
  BY DEF TypeInv, CommTypeInv
<1> QED
  BY <1>1, RingNumbers DEF Due

-----------------------------------------------------------------------------
(* What the steps do to those who wait for a queue.                        *)

CallsKept ==
  \A t \in Tasks, q \in Queues, x \in Resumes : OnCall(t, q, x)' <=> OnCall(t, q, x)

ListsKept == \A q \in Queues, x \in Resumes :
               blocked_list'[ListOf(q, x)] = blocked_list[ListOf(q, x)]

Untouched == CallsKept /\ ListsKept /\ UNCHANGED queue

\* create_queue forgets who waits for q.
Emptied(q) ==
  /\ CallsKept
  /\ \A r \in Queues, x \in Resumes :
       blocked_list'[ListOf(r, x)] = IF r = q THEN <<>> ELSE blocked_list[ListOf(r, x)]
  /\ \A r \in Queues : r # q => queue'[r] = queue[r]

\* t starts to wait for what there is nothing of.
Joined(t, q, resume) ==
  /\ Due(q, resume) = 0
  /\ UNCHANGED queue
  /\ \A r \in Queues, x \in Resumes : ~OnCall(t, r, x)
  /\ \A u \in Tasks, r \in Queues, x \in Resumes :
       OnCall(u, r, x)' <=> OnCall(u, r, x) \/ (u = t /\ r = q /\ x = resume)
  /\ \A r \in Queues, x \in Resumes : r # q \/ x # resume =>
       blocked_list'[ListOf(r, x)] = blocked_list[ListOf(r, x)]
  /\ \A u \in Tasks :
       WaitsFor(u, ListOf(q, resume))' <=> WaitsFor(u, ListOf(q, resume)) \/ u = t

\* The call of t, if it has waited, has waited for this, and ends.
Leaves(t, q, resume) ==
  /\ \A r \in Queues, x \in Resumes :
       ~WaitsFor(t, ListOf(r, x)) /\ (OnCall(t, r, x) => r = q /\ x = resume)
  /\ \A u \in Tasks, r \in Queues, x \in Resumes :
       OnCall(u, r, x)' <=> OnCall(u, r, x) /\ u # t

\* There is still nothing for t, which gives up.
GaveUp(t, q, resume) ==
  /\ Leaves(t, q, resume)
  /\ Due(q, resume) = 0
  /\ ListsKept /\ UNCHANGED queue

\* t takes one of what it has come for, and what it leaves is for the head of
\* the other list.
Transfers(t, q, resume) ==
  /\ Leaves(t, q, resume)
  /\ Due(q, resume)' = Due(q, resume) - 1
  /\ Due(q, Other(resume))' = Due(q, Other(resume)) + 1
  /\ \A r \in Queues : r # q => queue'[r] = queue[r]
  /\ \A r \in Queues, x \in Resumes :
       blocked_list'[ListOf(r, x)] =
         IF r = q /\ x = Other(resume) /\ blocked_list[ListOf(r, x)] # <<>>
         THEN Tail(blocked_list[ListOf(r, x)])
         ELSE blocked_list[ListOf(r, x)]

LEMMA SameComing ==
  ASSUME NEW q, NEW x, blocked_list'[ListOf(q, x)] = blocked_list[ListOf(q, x)],
         \A t \in Tasks : OnCall(t, q, x)' <=> OnCall(t, q, x)
  PROVE  /\ Coming(q, x)' = Coming(q, x)
         /\ \A t \in Tasks : WaitsFor(t, ListOf(q, x))' <=> WaitsFor(t, ListOf(q, x))
BY DEF Coming, WaitsFor

LEMMA SameServed ==
  ASSUME NEW q, NEW x, Served(q, x), queue'[q] = queue[q], Coming(q, x)' = Coming(q, x),
         blocked_list'[ListOf(q, x)] = blocked_list[ListOf(q, x)]
  PROVE  Served(q, x)'
<1>1. Due(q, x)' = Due(q, x)
  BY DEF Due
<1> QED
  BY <1>1 DEF Served

LEMMA UntouchedServed ==
  ASSUME WaitersCall, AllServed, Untouched
  PROVE  WaitersCall' /\ AllServed'
<1>1. ASSUME NEW q \in Queues, NEW x \in Resumes
      PROVE  /\ Served(q, x)'
             /\ \A t \in Tasks : WaitsFor(t, ListOf(q, x))' => OnCall(t, q, x)'
  BY <1>1, SameComing, SameServed
  DEF WaitersCall, AllServed, Untouched, CallsKept, ListsKept
<1> QED
  BY <1>1 DEF WaitersCall, AllServed

LEMMA EmptiedServed ==
  ASSUME WaitersCall, AllServed, NEW q \in Queues, Emptied(q)
  PROVE  WaitersCall' /\ AllServed'
<1>1. ASSUME NEW r \in Queues, NEW x \in Resumes
      PROVE  /\ Served(r, x)'
             /\ \A t \in Tasks : WaitsFor(t, ListOf(r, x))' => OnCall(t, r, x)'
  <2>1. CASE r = q
    <3>1. blocked_list'[ListOf(r, x)] = <<>>
      BY <2>1 DEF Emptied
    <3> QED
      BY <3>1 DEF Served, WaitsFor, Range
  <2>2. CASE r # q
    BY <2>2, SameComing, SameServed DEF WaitersCall, AllServed, Emptied, CallsKept
  <2> QED
    BY <2>1, <2>2
<1> QED
  BY <1>1 DEF WaitersCall, AllServed

LEMMA JoinedServed ==
  ASSUME WaitersCall, AllServed, NEW t \in Tasks, NEW q \in Queues, NEW resume \in Resumes,
         Joined(t, q, resume)
  PROVE  WaitersCall' /\ AllServed'
<1>1. ASSUME NEW r \in Queues, NEW x \in Resumes
      PROVE  /\ Served(r, x)'
             /\ \A u \in Tasks : WaitsFor(u, ListOf(r, x))' => OnCall(u, r, x)'
  <2>1. CASE r = q /\ x = resume
    <3>1. Due(r, x)' = 0
      BY <2>1 DEF Joined, Due
    <3>2. Served(r, x)'
      <4>1. Cardinality(Coming(r, x)') \in Nat
        BY FinitelyManyTasks, FS_Subset, FS_CardinalityType DEF Coming
      <4> QED
        BY <3>1, <4>1 DEF Served
    <3> QED
      BY <2>1, <3>2 DEF WaitersCall, Joined
  <2>2. CASE r # q \/ x # resume
    <3>1. \A u \in Tasks : OnCall(u, r, x)' <=> OnCall(u, r, x)
      BY <2>2 DEF Joined
    <3>2. blocked_list'[ListOf(r, x)] = blocked_list[ListOf(r, x)] /\ queue'[r] = queue[r]
      BY <2>2 DEF Joined
    <3> QED
      BY <3>1, <3>2, SameComing, SameServed DEF WaitersCall, AllServed
  <2> QED
    BY <2>1, <2>2
<1> QED
  BY <1>1 DEF WaitersCall, AllServed

LEMMA GaveUpServed ==
  ASSUME WaitersCall, AllServed, NEW t \in Tasks, NEW q \in Queues, NEW resume \in Resumes,
         GaveUp(t, q, resume)
  PROVE  WaitersCall' /\ AllServed'
<1>1. ASSUME NEW r \in Queues, NEW x \in Resumes
      PROVE  /\ Served(r, x)'
             /\ \A u \in Tasks : WaitsFor(u, ListOf(r, x))' => OnCall(u, r, x)'
  <2>1. /\ blocked_list'[ListOf(r, x)] = blocked_list[ListOf(r, x)]
        /\ \A u \in Tasks : WaitsFor(u, ListOf(r, x))' <=> WaitsFor(u, ListOf(r, x))
    BY DEF GaveUp, ListsKept, WaitsFor
  <2>2. \A u \in Tasks : WaitsFor(u, ListOf(r, x))' => OnCall(u, r, x)'
    BY <2>1 DEF GaveUp, Leaves, WaitersCall
  <2>3. CASE r = q /\ x = resume
    <3>1. Due(r, x)' = 0
      BY <2>3 DEF GaveUp, Due
    <3>2. Cardinality(Coming(r, x)') \in Nat
      BY FinitelyManyTasks, FS_Subset, FS_CardinalityType DEF Coming
    <3> QED
      BY <2>2, <3>1, <3>2 DEF Served
  <2>4. CASE r # q \/ x # resume
    <3>1. \A u \in Tasks : OnCall(u, r, x)' <=> OnCall(u, r, x)
      BY <2>4 DEF GaveUp, Leaves
    <3>2. queue'[r] = queue[r]
      BY DEF GaveUp
    <3> QED
      BY <2>1, <2>2, <3>1, <3>2, SameComing, SameServed DEF AllServed
  <2> QED
    BY <2>3, <2>4
<1> QED
  BY <1>1 DEF WaitersCall, AllServed

LEMMA TransferServed ==
  ASSUME TypeInv, LinkInv, WaitersCall, AllServed, NEW t \in Tasks, NEW q \in Queues,
         NEW resume \in Resumes, Transfers(t, q, resume)
  PROVE  WaitersCall' /\ AllServed'
<1>1. ASSUME NEW r \in Queues, NEW x \in Resumes, r # q \/ x # Other(resume)
      PROVE  /\ Served(r, x)'
             /\ \A u \in Tasks : WaitsFor(u, ListOf(r, x))' => OnCall(u, r, x)'
  <2>1. /\ blocked_list'[ListOf(r, x)] = blocked_list[ListOf(r, x)]
        /\ \A u \in Tasks : WaitsFor(u, ListOf(r, x))' <=> WaitsFor(u, ListOf(r, x))
    BY <1>1 DEF Transfers, WaitsFor
  <2>2. \A u \in Tasks : WaitsFor(u, ListOf(r, x))' => OnCall(u, r, x)'
    BY <2>1 DEF Transfers, Leaves, WaitersCall
  <2>3. CASE r = q
    <3>1. x = resume
      BY <1>1, <2>3 DEF Resumes, Other
    <3>2. Coming(r, x)' = Coming(r, x) \ {t}
      BY <2>1 DEF Coming, Transfers, Leaves
    <3>3. /\ Cardinality(Coming(r, x)) \in Nat
          /\ Cardinality(Coming(r, x) \ {t}) \in Nat
          /\ Cardinality(Coming(r, x) \ {t}) >= Cardinality(Coming(r, x)) - 1
      BY ComingNumbers, FS_RemoveElement, FS_CardinalityType
    <3>4. Due(r, x)' = Due(r, x) - 1 /\ Due(r, x) \in Nat
      BY <2>3, <3>1, DueNumbers DEF Transfers
    <3>5. Served(r, x)
      BY DEF AllServed
    <3> QED
      BY <2>1, <2>2, <3>2, <3>3, <3>4, <3>5 DEF Served
  <2>4. CASE r # q
    <3>1. \A u \in Tasks : OnCall(u, r, x)' <=> OnCall(u, r, x)
      BY <2>4 DEF Transfers, Leaves
    <3>2. queue'[r] = queue[r]
      BY <2>4 DEF Transfers
    <3> QED
      BY <2>1, <2>2, <3>1, <3>2, SameComing, SameServed DEF AllServed
  <2> QED
    BY <2>3, <2>4
<1> DEFINE other == Other(resume)
           list == blocked_list[ListOf(q, other)]
<1>2. other \in Resumes /\ other # resume
  BY DEF Other, Resumes
<1>3. list \in Seq(Tasks) /\ IsInjective(list)
  BY <1>2, ListOfKnown, ListsOfTasks DEF LinkInv, WaitLinked
<1>4. /\ blocked_list'[ListOf(q, other)] = IF list = <<>> THEN <<>> ELSE Tail(list)
      /\ Due(q, other)' = Due(q, other) + 1
  BY <1>2 DEF Transfers
<1>5. \A u \in Tasks : OnCall(u, q, other)' <=> OnCall(u, q, other)
  BY <1>2 DEF Transfers, Leaves
<1> HIDE DEF other, list
<1>6. CASE list = <<>>
  <2>1. blocked_list'[ListOf(q, other)] = <<>>
    BY <1>4, <1>6
  <2> QED
    BY <1>1, <2>1 DEF AllServed, WaitersCall, Served, WaitsFor, Range, other
<1>7. CASE list # <<>>
  <2> PICK w : w = Head(list)
    OBVIOUS
  <2>1. Range(Tail(list)) = Range(list) \ {w} /\ w \in Range(list)
    BY <1>3, <1>7, TailElements
  <2>2. \A u \in Tasks :
          /\ WaitsFor(u, ListOf(q, other)) <=> u \in Range(list)
          /\ WaitsFor(u, ListOf(q, other))' <=> u \in Range(list) /\ u # w
    BY <1>4, <1>7, <2>1 DEF WaitsFor, list
  <2>3. w \in Tasks
    BY <1>3, <1>7, HeadTailProperties
  <2>4. \A u \in Tasks : WaitsFor(u, ListOf(q, other)) => OnCall(u, q, other)
    BY <1>2 DEF WaitersCall
  <2>5. \A u \in Tasks : WaitsFor(u, ListOf(q, other))' => OnCall(u, q, other)'
    BY <1>5, <2>2, <2>4
  <2>6. Coming(q, other)' = Coming(q, other) \cup {w} /\ w \notin Coming(q, other)
    BY <1>5, <2>1, <2>2, <2>3, <2>4 DEF Coming
  <2>7. /\ Cardinality(Coming(q, other)) \in Nat
        /\ Cardinality(Coming(q, other) \cup {w}) = Cardinality(Coming(q, other)) + 1
    BY <2>6, ComingNumbers, FS_AddElement
  <2>8. Due(q, other) <= Cardinality(Coming(q, other)) /\ Due(q, other) \in Nat
    BY <1>2, <1>7, DueNumbers DEF AllServed, Served, list
  <2>9. Served(q, other)'
    BY <1>4, <2>6, <2>7, <2>8 DEF Served
  <2> QED
    BY <1>1, <2>5, <2>9 DEF AllServed, WaitersCall, other
<1> QED
  BY <1>6, <1>7

-----------------------------------------------------------------------------
(* Which step does what.                                                   *)

\* A task that executes outside schedule() is in no list, and its calls are
\* the one it returns to.
LEMMA ExecutingOnCall ==
  ASSUME SwitchesAtOnce, TypeInv, LinkInv, SchedInv, ReturnsSpent,
         NEW t \in Tasks, Executing(t), pc[t] \in ReturnPC
  PROVE  /\ \A l \in BlockedLists : ~WaitsFor(t, l)
         /\ ret[t] = "user"
         /\ \A q, x : OnCall(t, q, x) /\ x \in Resumes => pc[t] = x /\ request[t].queue = q
<1>1. Runs(t) /\ t # Idle /\ t \in Indexable
  BY ExecutingRuns
<1>2. Ready(t)
  BY <1>1, HeadInList DEF Runs
<1>3. \A l \in BlockedLists : ~WaitsFor(t, l)
  BY <1>2 DEF LinkInv, StateLinked, Waits
<1>4. ret[t] = "user"
  BY DEF ReturnsSpent
<1> QED
  BY <1>3, <1>4 DEF OnCall, Resumes

\* Steps that have nothing to do with queues, by what they do to pc and ret.
LEMMA PcKept ==
  ASSUME ReturnsSpent, UNCHANGED <<pc, ret, request>>
  PROVE  CallsKept /\ ReturnsSpent'
BY DEF CallsKept, OnCall, ReturnsSpent

LEMMA ScheduleCalls ==
  ASSUME TypeInv, ReturnsSpent, NEW t \in Tasks, Schedule(t), UNCHANGED request
  PROVE  CallsKept /\ ReturnsSpent'
<1> USE DEF SchedPC, ReturnPC
<1>1. pc \in [Tasks -> PC] /\ ret \in [Tasks -> ReturnPC]
  BY DEF TypeInv, SchedTypeOK
<1>2. /\ pc[t] \in SchedPC
      /\ \A u \in Tasks : u # t => pc'[u] = pc[u] /\ ret'[u] = ret[u]
      /\ \/ pc'[t] \in SchedPC /\ ret'[t] = ret[t]
         \/ pc'[t] = ret[t] /\ ret'[t] = "user"
  BY <1>1 DEF Schedule, SchedIndex, SchedLoad, SchedStore, SchedCheck, SchedCurrent,
     SchedMatch, SchedPreempt, SchedCommit, SchedSwitch, At, Goto, ReturnFromSchedule
<1>3. \A u \in Tasks, x \in Resumes : x \in {pc'[u], ret'[u]} <=> x \in {pc[u], ret[u]}
  BY <1>2 DEF Resumes
<1>4. CallsKept
  BY <1>3 DEF CallsKept, OnCall
<1> QED
  BY <1>1, <1>2, <1>4 DEF ReturnsSpent

\* A call that is not of a queue, or no call.
LEMMA OtherCalls ==
  ASSUME TypeInv, ReturnsSpent, NEW t \in Tasks, pc[t] \in {"user", "delay_exit", "queue_exit"},
         NEW label \in {"user", "sched_index"},
         Goto(t, label), ret' = [ret EXCEPT ![t] = "user"] \/ UNCHANGED ret, UNCHANGED request
  PROVE  CallsKept /\ ReturnsSpent'
<1>1. pc \in [Tasks -> PC] /\ ret \in [Tasks -> ReturnPC]
  BY DEF TypeInv, SchedTypeOK
<1>2. /\ ret[t] = "user" /\ ret'[t] = "user" /\ pc'[t] = label
      /\ \A u \in Tasks : u # t => pc'[u] = pc[u] /\ ret'[u] = ret[u]
  BY <1>1 DEF ReturnsSpent, ReturnPC, Goto
<1>3. \A u \in Tasks, x \in Resumes : x \in {pc'[u], ret'[u]} <=> x \in {pc[u], ret[u]}
  BY <1>2 DEF Resumes
<1>4. CallsKept
  BY <1>3 DEF CallsKept, OnCall
<1> QED
  BY <1>2, <1>4 DEF ReturnsSpent

\* What happens to the list of a semaphore is nothing to a queue.
LEMMA SemaphoreListsApart ==
  ASSUME NEW s, NEW list, blocked_list \in [BlockedLists -> Seq(Indexable)],
         blocked_list' = [blocked_list EXCEPT ![WaitList(s)] = list]
  PROVE  ListsKept
BY ListsApart, ListOfKnown DEF ListsKept

LEMMA SchedulerUntouched ==
  ASSUME SwitchesAtOnce, TypeInv, ReturnsSpent, SchedulerStep
  PROVE  Untouched /\ ReturnsSpent'
<1>1. ListsKept /\ UNCHANGED <<queue, request>>
  BY DEF SchedulerStep, ListsKept, queueVars
<1>2. \A t, u \in Tasks : ~YieldTask(t, u) /\ ~YieldRefused(t, u)
  BY DEF SwitchesAtOnce, YieldTask, YieldRefused, YieldCall, Calling
<1>3. CASE \E t \in Tasks : Schedule(t)
  BY <1>1, <1>3, ScheduleCalls DEF Untouched
<1>4. CASE PendSV \/ StartKernel \/ \E u \in Tasks : CreateTask(u) \/ CreateRefused(u)
  <2>1. UNCHANGED <<pc, ret>>
    BY <1>4 DEF PendSV, StartKernel, CreateTask, CreateRefused, schedVars
  <2> QED
    BY <1>1, <2>1, PcKept DEF Untouched
<1> QED
  BY <1>2, <1>3, <1>4 DEF SchedulerStep

LEMMA TimerUntouched ==
  ASSUME SwitchesAtOnce, TypeInv, ReturnsSpent, NoTimers, TimerStep
  PROVE  Untouched /\ ReturnsSpent'
<1>1. ListsKept /\ UNCHANGED <<queue, request>>
  BY DEF TimerStep, ListsKept, queueVars
<1>2. \A t \in Tasks, ms \in Delays : ~DelayTask(t, ms) /\ ~DelayRefused(t, ms)
  BY DEF SwitchesAtOnce, DelayTask, DelayRefused, Calling
<1>3. (\A t \in Tasks : ~DelayBlock(t)) /\ ~TickCount /\ ~TickExpire
  BY DEF NoTimers, DelayBlock, At, TickCount, TickExpire
<1>4. ASSUME NEW t \in Tasks, DelayExit(t) PROVE Untouched /\ ReturnsSpent'
  <2>1. pc[t] = "delay_exit" /\ Goto(t, "user") /\ UNCHANGED ret
    BY <1>4 DEF DelayExit, At
  <2> QED
    BY <1>1, <2>1, OtherCalls DEF Untouched
<1>5. CASE TickIdle
  <2>1. UNCHANGED <<pc, ret>>
    BY <1>5 DEF TickIdle, schedVars
  <2> QED
    BY <1>1, <2>1, PcKept DEF Untouched
<1> QED
  BY <1>2, <1>3, <1>4, <1>5 DEF TimerStep

LEMMA SemaphoreUntouched ==
  ASSUME TypeInv, ReturnsSpent, SemaphoreStep
  PROVE  Untouched /\ ReturnsSpent'
<1>1. UNCHANGED <<queue, request>> /\ blocked_list \in [BlockedLists -> Seq(Indexable)]
  BY DEF SemaphoreStep, queueVars, TypeInv, CommTypeInv
<1>2. UNCHANGED blocked_list => ListsKept
  BY DEF ListsKept
<1>3. ASSUME NEW s \in Semaphores,
             (\E v \in InitialCounts : CreateSemaphore(s, v)) \/ CreateSemaphoreRefused(s)
      PROVE  Untouched /\ ReturnsSpent'
  <2>1. /\ UNCHANGED <<pc, ret>>
        /\ \/ UNCHANGED blocked_list
           \/ blocked_list' = [blocked_list EXCEPT ![WaitList(s)] = <<>>]
    BY <1>3 DEF CreateSemaphore, CreateSemaphoreRefused, schedVars
  <2> QED
    BY <1>1, <1>2, <2>1, PcKept, SemaphoreListsApart DEF Untouched
<1>4. ASSUME NEW t \in Tasks, NEW s \in Semaphores, PostRefused(t, s) \/ WaitRefused(t, s)
      PROVE  Untouched /\ ReturnsSpent'
  <2>1. UNCHANGED <<pc, ret, blocked_list>>
    BY <1>4 DEF PostRefused, WaitRefused, schedVars
  <2> QED
    BY <1>1, <1>2, <2>1, PcKept DEF Untouched
<1>5. ASSUME NEW t \in Tasks, NEW s \in Semaphores,
             PostCount(t, s) \/ PostWake(t, s) \/ WaitTake(t, s) \/ WaitBlock(t, s)
      PROVE  Untouched /\ ReturnsSpent'
  <2>1. /\ pc[t] = "user" /\ Goto(t, "sched_index") /\ ret' = [ret EXCEPT ![t] = "user"]
    BY <1>5 DEF PostCount, PostWake, WaitTake, WaitBlock, Calling, At, CallSchedule
  <2>2. \/ UNCHANGED blocked_list
        \/ \E list : blocked_list' = [blocked_list EXCEPT ![WaitList(s)] = list]
    BY <1>5 DEF PostCount, PostWake, WaitTake, WaitBlock, WakeHead, BlockIn
  <2>3. ListsKept
    BY <1>1, <1>2, <2>2, SemaphoreListsApart
  <2> QED
    BY <1>1, <2>1, <2>3, OtherCalls DEF Untouched
<1> QED
  BY <1>3, <1>4, <1>5 DEF SemaphoreStep

\* A task that has a state keeps having one.
LEMMA NobodyVanishes ==
  ASSUME SwitchesAtOnce, TypeInv, NoTimers, [Next]_vars
  PROVE  \A u \in Tasks : task_state'[u] = "ABSENT" => task_state[u] = "ABSENT"
<1> USE DEF listVars
<1>1. task_state \in [Tasks \cup {Idle} -> TaskState]
  BY DEF TypeInv, ListTypeInv
<1>2. ASSUME NEW t \in Tasks, Schedule(t)
      PROVE  \A u \in Tasks : task_state'[u] = "ABSENT" => task_state[u] = "ABSENT"
  <2>1. CASE SchedPreempt(t)
    BY <1>1, <2>1 DEF SchedPreempt, PreemptCurrent
  <2>2. CASE SchedCommit(t)
    BY <1>1, <2>2 DEF SchedCommit
  <2>3. CASE \/ SchedIndex(t) \/ SchedLoad(t) \/ SchedStore(t) \/ SchedCheck(t)
             \/ SchedCurrent(t) \/ SchedMatch(t) \/ SchedSwitch(t)
    BY <2>3 DEF SchedIndex, SchedLoad, SchedStore, SchedCheck, SchedCurrent, SchedMatch,
                SchedSwitch
  <2> QED
    BY <1>2, <2>1, <2>2, <2>3 DEF Schedule
<1>3. ASSUME StartKernel
      PROVE  \A u \in Tasks : task_state'[u] = "ABSENT" => task_state[u] = "ABSENT"
  <2> PICK states : /\ states = [task_state EXCEPT ![Idle] = "RUNNING"]
                    /\ ScheduleNow(states, Idle)
    BY <1>3 DEF StartKernel
  <2> PICK next \in TaskPtr :
        IF ready_to_running(states, Idle, next, next)
        THEN task_state' = [PreemptCurrent(states, Idle) EXCEPT ![next] = "RUNNING"]
        ELSE task_state' = states
    BY DEF ScheduleNow
  <2>1. \A u \in Tasks : states[u] = task_state[u]
    BY <1>1, TasksAssumption
  <2>2. states \in [Tasks \cup {Idle} -> TaskState]
    BY <1>1 DEF TaskState
  <2>3. /\ PreemptCurrent(states, Idle) \in [Tasks \cup {Idle} -> TaskState]
        /\ \A u \in Tasks : PreemptCurrent(states, Idle)[u] = states[u]
    BY <2>2, TasksAssumption DEF PreemptCurrent, TaskState
  <2> QED
    BY <2>1, <2>3
<1>4. ASSUME NEW t \in Tasks, CreateTask(t)
      PROVE  \A u \in Tasks : task_state'[u] = "ABSENT" => task_state[u] = "ABSENT"
  BY <1>1, <1>4 DEF CreateTask
<1>5. CASE PendSV \/ QuietCall
  BY <1>5 DEF PendSV, QuietCall
<1>6. ASSUME BlockingCall
      PROVE  \A u \in Tasks : task_state'[u] = "ABSENT" => task_state[u] = "ABSENT"
  BY <1>1, <1>6 DEF BlockingCall, BlockIn, WaitingState
<1>7. ASSUME WakingCall
      PROVE  \A u \in Tasks : task_state'[u] = "ABSENT" => task_state[u] = "ABSENT"
  BY <1>1, <1>7 DEF WakingCall, WakeHead
<1> QED
  BY <1>2, <1>3, <1>4, <1>5, <1>6, <1>7, SchedulingSteps

\* Who comes to wait is made to.
LEMMA WaitersMade ==
  ASSUME TypeInv, LinkInv, [Next]_vars
  PROVE  \A u \in Tasks : Waits(u)' => Waits(u) \/ task_state'[u] # "ABSENT"
<1>1. ASSUME UNCHANGED blocked_list
      PROVE  \A u \in Tasks : Waits(u)' => Waits(u)
  BY <1>1 DEF Waits, WaitsFor
<1>2. ASSUME ListsEmptied
      PROVE  \A u \in Tasks : Waits(u)' => Waits(u)
  BY <1>2, EmptiedLists DEF Waits, WaitsFor, Range
<1>3. ASSUME Wakes
      PROVE  \A u \in Tasks : Waits(u)' => Waits(u)
  <2> PICK l \in BlockedLists : blocked_list[l] # <<>> /\ WakeHead(l)
    BY <1>3 DEF Wakes
  <2>1. /\ blocked_list[l] \in Seq(Tasks) /\ IsInjective(blocked_list[l])
        /\ blocked_list \in [BlockedLists -> Seq(Indexable)]
    BY ListsOfTasks DEF LinkInv, WaitLinked, TypeInv, CommTypeInv
  <2>2. Range(Tail(blocked_list[l])) \subseteq Range(blocked_list[l])
    BY <2>1, TailElements
  <2>3. \A m \in BlockedLists :
          \/ blocked_list'[m] = blocked_list[m]
          \/ m = l /\ blocked_list'[m] = Tail(blocked_list[l])
    BY <2>1 DEF WakeHead, remove_from_blocked_list
  <2> QED
    BY <2>2, <2>3 DEF Waits, WaitsFor
<1>4. ASSUME Blocks
      PROVE  \A u \in Tasks : Waits(u)' => Waits(u) \/ task_state'[u] # "ABSENT"
  <2> PICK t \in Tasks, l \in BlockedLists, state \in WaitingState : BlockIn(t, l, state)
    BY <1>4 DEF Blocks
  <2> PICK k \in 1..(Len(blocked_list[l]) + 1) :
        blocked_list' = [blocked_list EXCEPT ![l] = InsertAt(@, k, t)]
    BY DEF BlockIn
  <2>1. Range(InsertAt(blocked_list[l], k, t)) = Range(blocked_list[l]) \cup {t}
    BY ListsOfTasks, InsertAtRange
  <2>2. \A m \in BlockedLists :
          blocked_list'[m] = IF m = l THEN InsertAt(blocked_list[l], k, t) ELSE blocked_list[m]
    BY DEF TypeInv, CommTypeInv
  <2>3. task_state'[t] = state
    BY DEF BlockIn, TypeInv, ListTypeInv
  <2> QED
    BY <2>1, <2>2, <2>3 DEF Waits, WaitsFor, WaitingState
<1> QED
  BY <1>1, <1>2, <1>3, <1>4, ListSteps DEF QuietStep

LEMMA WaitersExistStep ==
  ASSUME SwitchesAtOnce, TypeInv, LinkInv, NoTimers, WaitersExist, [Next]_vars
  PROVE  WaitersExist'
BY NobodyVanishes, WaitersMade DEF WaitersExist

\* The head of a list can be woken.
LEMMA HeadWakeable ==
  ASSUME TypeInv, LinkInv, StatesFit, WaitersExist, NEW l \in BlockedLists, Awaited(l)
  PROVE  Wakeable(l) /\ remove_from_blocked_list(blocked_list[l]) = Tail(blocked_list[l])
<1> PICK w : w = Head(blocked_list[l])
  OBVIOUS
<1>1. w \in Tasks /\ w \in Range(blocked_list[l])
  BY HeadWaiter, ListsOfTasks, TailElements DEF Awaited, LinkInv, WaitLinked
<1>2. Waits(w)
  BY <1>1 DEF Waits, WaitsFor
<1>3. ~Ready(w) /\ task_state[w] # "ABSENT"
  BY <1>1, <1>2 DEF LinkInv, StateLinked, WaitersExist
<1>4. task_state[w] \in WaitingState
  BY <1>1, <1>3 DEF StatesFit
<1> QED
  BY <1>4 DEF Wakeable, BlockedState, WaitingState, remove_from_blocked_list

\* t ends a send or a receive.
LEMMA NotifyTransfers ==
  ASSUME SwitchesAtOnce, TypeInv, LinkInv, SchedInv, ReturnsSpent, WaitersExist,
         NEW t \in Tasks, NEW q \in Queues, NEW resume \in Resumes,
         Executing(t), pc[t] = "user" \/ (pc[t] = resume /\ request[t].queue = q),
         Notify(t, ListOf(q, Other(resume))),
         Due(q, resume)' = Due(q, resume) - 1,
         Due(q, Other(resume))' = Due(q, Other(resume)) + 1,
         \A r \in Queues : r # q => queue'[r] = queue[r]
  PROVE  Transfers(t, q, resume) /\ ReturnsSpent'
<1> DEFINE other == Other(resume)
           l == ListOf(q, other)
<1>1. pc[t] \in ReturnPC /\ other \in Resumes /\ l \in BlockedLists
  BY ListOfKnown DEF ReturnPC, Resumes, Other
<1>2. /\ \A m \in BlockedLists : ~WaitsFor(t, m)
      /\ ret[t] = "user"
      /\ \A r \in Queues, x \in Resumes : OnCall(t, r, x) => r = q /\ x = resume
  BY <1>1, ExecutingOnCall DEF Resumes
<1>3. /\ pc \in [Tasks -> PC] /\ ret \in [Tasks -> ReturnPC]
      /\ blocked_list \in [BlockedLists -> Seq(Indexable)]
      /\ request \in [Tasks -> [queue : Queues \cup {NoQueue}, ms : Timeouts \cup {0}]]
  BY DEF TypeInv, SchedTypeOK, CommTypeInv
<1>4. request' = [request EXCEPT ![t] = NoCall] /\ NoCall.queue \notin Queues
  BY QueuesAssumption DEF Notify, NoCall
<1>5. \A u \in Tasks : request'[u].queue = IF u = t THEN NoQueue ELSE request[u].queue
  BY <1>3, <1>4 DEF NoCall
<1>6. Leaves(t, q, resume)
  <2>1. \A u \in Tasks : u # t => pc'[u] = pc[u] /\ ret'[u] = ret[u]
    BY <1>3 DEF Notify, CallSchedule, Goto
  <2>2. \A r \in Queues, x \in Resumes : ~WaitsFor(t, ListOf(r, x))
    BY <1>2, ListOfKnown
  <2>3. \A u \in Tasks, r \in Queues, x \in Resumes :
          OnCall(u, r, x)' <=> OnCall(u, r, x) /\ u # t
    BY <1>5, <2>1, QueuesAssumption DEF OnCall
  <2> QED
    BY <1>2, <2>2, <2>3 DEF Leaves
<1> HIDE DEF other, l
<1>7. CASE Awaited(l)
  <2>1. Wakeable(l) /\ remove_from_blocked_list(blocked_list[l]) = Tail(blocked_list[l])
    BY <1>1, <1>7, HeadWakeable DEF SchedInv
  <2>2. /\ blocked_list' = [blocked_list EXCEPT ![l] = Tail(blocked_list[l])]
        /\ pc' = [pc EXCEPT ![t] = "sched_index"] /\ ret' = [ret EXCEPT ![t] = "queue_exit"]
    BY <1>7, <2>1 DEF Notify, WakeHead, CallSchedule, Goto, l, other
  <2>3. \A r \in Queues, x \in Resumes :
          blocked_list'[ListOf(r, x)] =
            IF r = q /\ x = other /\ blocked_list[ListOf(r, x)] # <<>>
            THEN Tail(blocked_list[ListOf(r, x)])
            ELSE blocked_list[ListOf(r, x)]
    <3> TAKE r \in Queues, x \in Resumes
    <3>1. ListOf(r, x) = l <=> r = q /\ x = other
      BY <1>1, ListsApart DEF l
    <3>2. l \in BlockedLists /\ ListOf(r, x) \in BlockedLists
      BY <1>1, ListOfKnown DEF l
    <3>3. blocked_list[l] # <<>>
      BY <1>7 DEF Awaited
    <3> QED
      BY <1>3, <2>2, <3>1, <3>2, <3>3
  <2>4. ReturnsSpent'
    BY <1>3, <2>2 DEF ReturnsSpent, ReturnPC
  <2> QED
    BY <1>6, <2>3, <2>4 DEF Transfers, other
<1>8. CASE ~Awaited(l)
  <2>1. UNCHANGED <<blocked_list, ret>> /\ pc' = [pc EXCEPT ![t] = "user"]
    BY <1>8 DEF Notify, Goto, l, other
  <2>2. \A r \in Queues, x \in Resumes :
          blocked_list'[ListOf(r, x)] =
            IF r = q /\ x = other /\ blocked_list[ListOf(r, x)] # <<>>
            THEN Tail(blocked_list[ListOf(r, x)])
            ELSE blocked_list[ListOf(r, x)]
    BY <1>8, <2>1 DEF l, Awaited
  <2>3. ReturnsSpent'
    BY <1>2, <1>3, <2>1 DEF ReturnsSpent
  <2> QED
    BY <1>6, <2>2, <2>3 DEF Transfers, other
<1> QED
  BY <1>7, <1>8

LEMMA PushTransfers ==
  ASSUME SwitchesAtOnce, TypeInv, LinkInv, SchedInv, ReturnsSpent, WaitersExist,
         NEW t \in Tasks, NEW q \in Queues, NEW d, Executing(t),
         pc[t] = "user" \/ (pc[t] = "send_resume" /\ request[t].queue = q), Push(t, q, d)
  PROVE  Transfers(t, q, "send_resume") /\ ReturnsSpent'
<1>1. queue[q] \in Queue /\ queue \in [Queues -> {qu \in Queue : RingOK(qu)}]
  BY DEF TypeInv, CommTypeInv
<1>2. queue' = [queue EXCEPT ![q] = Pushed(queue[q], d)]
  BY DEF Push
<1>3. /\ queue'[q].capacity = queue[q].capacity /\ queue'[q].count = queue[q].count + 1
      /\ \A r \in Queues : r # q => queue'[r] = queue[r]
  BY <1>1, <1>2, PushedFields
<1>4. queue[q].capacity \in Nat /\ queue[q].count \in Nat
  BY <1>1, RingNumbers
<1>5. /\ Due(q, "send_resume")' = Due(q, "send_resume") - 1
      /\ Due(q, "receive_resume")' = Due(q, "receive_resume") + 1
  BY <1>3, <1>4 DEF Due
<1>6. /\ Other("send_resume") = "receive_resume" /\ "send_resume" \in Resumes
      /\ ListOf(q, "receive_resume") = ReceiveList(q)
  BY DEF Other, ListOf, Resumes
<1>7. Notify(t, ListOf(q, Other("send_resume")))
  BY <1>6 DEF Push
<1> QED
  BY <1>3, <1>5, <1>6, <1>7, NotifyTransfers

LEMMA PopTransfers ==
  ASSUME SwitchesAtOnce, TypeInv, LinkInv, SchedInv, ReturnsSpent, WaitersExist,
         NEW t \in Tasks, NEW q \in Queues, Executing(t),
         pc[t] = "user" \/ (pc[t] = "receive_resume" /\ request[t].queue = q), Pop(t, q)
  PROVE  Transfers(t, q, "receive_resume") /\ ReturnsSpent'
<1>1. queue[q] \in Queue /\ queue \in [Queues -> {qu \in Queue : RingOK(qu)}]
  BY DEF TypeInv, CommTypeInv
<1>2. queue' = [queue EXCEPT ![q] = Popped(queue[q])]
  BY DEF Pop
<1>3. /\ queue'[q].capacity = queue[q].capacity /\ queue'[q].count = queue[q].count - 1
      /\ \A r \in Queues : r # q => queue'[r] = queue[r]
  BY <1>1, <1>2, PoppedFields
<1>4. queue[q].capacity \in Nat /\ queue[q].count \in Nat
  BY <1>1, RingNumbers
<1>5. /\ Due(q, "receive_resume")' = Due(q, "receive_resume") - 1
      /\ Due(q, "send_resume")' = Due(q, "send_resume") + 1
  BY <1>3, <1>4 DEF Due
<1>6. /\ Other("receive_resume") = "send_resume" /\ "receive_resume" \in Resumes
      /\ ListOf(q, "send_resume") = SendList(q)
  BY DEF Other, ListOf, Resumes
<1>7. Notify(t, ListOf(q, Other("receive_resume")))
  BY <1>6 DEF Pop
<1> QED
  BY <1>3, <1>5, <1>6, <1>7, NotifyTransfers

\* t, which runs its own code, starts to wait.
LEMMA WaitJoins ==
  ASSUME SwitchesAtOnce, TypeInv, LinkInv, SchedInv, ReturnsSpent,
         NEW t \in Tasks, NEW q \in Queues, NEW resume \in Resumes, NEW ms \in Timeouts,
         NEW state, Executing(t), pc[t] = "user", Due(q, resume) = 0,
         WaitInQueue(t, q, ListOf(q, resume), state, ms, resume)
  PROVE  Joined(t, q, resume) /\ ReturnsSpent'
<1> DEFINE l == ListOf(q, resume)
<1>1. l \in BlockedLists /\ pc[t] \in ReturnPC /\ ~(ms > 0)
  BY ListOfKnown, QueuesAssumption DEF ReturnPC, SwitchesAtOnce
<1>2. /\ \A m \in BlockedLists : ~WaitsFor(t, m)
      /\ \A r \in Queues, x \in Resumes : ~OnCall(t, r, x)
  BY <1>1, ExecutingOnCall DEF Resumes
<1>3. /\ pc \in [Tasks -> PC] /\ ret \in [Tasks -> ReturnPC]
      /\ blocked_list \in [BlockedLists -> Seq(Indexable)]
      /\ request \in [Tasks -> [queue : Queues \cup {NoQueue}, ms : Timeouts \cup {0}]]
  BY DEF TypeInv, SchedTypeOK, CommTypeInv
<1>4. /\ pc' = [pc EXCEPT ![t] = "sched_index"] /\ ret' = [ret EXCEPT ![t] = resume]
      /\ request' = [request EXCEPT ![t] = [queue |-> q, ms |-> ms]]
      /\ UNCHANGED queue
  BY <1>1 DEF WaitInQueue, Goto
<1> HIDE DEF l
<1> PICK k \in 1..(Len(blocked_list[l]) + 1) :
      blocked_list' = [blocked_list EXCEPT ![l] = InsertAt(@, k, t)]
  BY DEF WaitInQueue, BlockIn, l
<1>5. Range(InsertAt(blocked_list[l], k, t)) = Range(blocked_list[l]) \cup {t}
  BY <1>1, ListsOfTasks, InsertAtRange
<1>6. \A m \in BlockedLists :
        blocked_list'[m] = IF m = l THEN InsertAt(blocked_list[l], k, t) ELSE blocked_list[m]
  BY <1>3
<1>7. \A u \in Tasks : WaitsFor(u, l)' <=> WaitsFor(u, l) \/ u = t
  BY <1>1, <1>5, <1>6 DEF WaitsFor, l
<1>8. \A r \in Queues, x \in Resumes : r # q \/ x # resume =>
        blocked_list'[ListOf(r, x)] = blocked_list[ListOf(r, x)]
  BY <1>6, ListsApart, ListOfKnown DEF l
<1>9. \A u \in Tasks, r \in Queues, x \in Resumes :
        OnCall(u, r, x)' <=> OnCall(u, r, x) \/ (u = t /\ r = q /\ x = resume)
  <2>1. /\ pc'[t] = "sched_index" /\ ret'[t] = resume /\ request'[t].queue = q
        /\ \A u \in Tasks : u # t =>
             pc'[u] = pc[u] /\ ret'[u] = ret[u] /\ request'[u] = request[u]
    BY <1>3, <1>4
  <2> QED
    BY <1>2, <2>1 DEF OnCall, Resumes
<1>10. ReturnsSpent'
  BY <1>3, <1>4 DEF ReturnsSpent, ReturnPC
<1> QED
  BY <1>2, <1>4, <1>7, <1>8, <1>9, <1>10 DEF Joined, l

\* A call that returns false: t has not waited, or there is still nothing.
LEMMA ReturnGivesUp ==
  ASSUME SwitchesAtOnce, TypeInv, LinkInv, SchedInv, ReturnsSpent,
         NEW t \in Tasks, NEW q \in Queues, NEW resume \in Resumes,
         Executing(t), pc[t] = "user" \/ (pc[t] = resume /\ request[t].queue = q),
         Due(q, resume) = 0, ReturnFalse(t)
  PROVE  GaveUp(t, q, resume) /\ ReturnsSpent'
<1>1. pc[t] \in ReturnPC
  BY DEF ReturnPC, Resumes
<1>2. /\ \A m \in BlockedLists : ~WaitsFor(t, m)
      /\ \A r \in Queues, x \in Resumes : OnCall(t, r, x) => r = q /\ x = resume
  BY <1>1, ExecutingOnCall DEF Resumes
<1>3. /\ pc \in [Tasks -> PC] /\ ret \in [Tasks -> ReturnPC]
      /\ request \in [Tasks -> [queue : Queues \cup {NoQueue}, ms : Timeouts \cup {0}]]
  BY DEF TypeInv, SchedTypeOK, CommTypeInv
<1>4. /\ pc' = [pc EXCEPT ![t] = "user"] /\ ret' = [ret EXCEPT ![t] = "user"]
      /\ request' = [request EXCEPT ![t] = NoCall] /\ UNCHANGED <<blocked_list, queue>>
  BY DEF ReturnFalse, Goto
<1>5. \A u \in Tasks, r \in Queues, x \in Resumes :
        OnCall(u, r, x)' <=> OnCall(u, r, x) /\ u # t
  <2>1. \A u \in Tasks : request'[u].queue = IF u = t THEN NoQueue ELSE request[u].queue
    BY <1>3, <1>4 DEF NoCall
  <2>2. \A u \in Tasks : u # t => pc'[u] = pc[u] /\ ret'[u] = ret[u]
    BY <1>3, <1>4
  <2> QED
    BY <2>1, <2>2, QueuesAssumption DEF OnCall
<1>6. \A r \in Queues, x \in Resumes : ~WaitsFor(t, ListOf(r, x))
  BY <1>2, ListOfKnown
<1>7. ListsKept
  BY <1>4 DEF ListsKept
<1>8. ReturnsSpent'
  BY <1>3, <1>4 DEF ReturnsSpent
<1> QED
  BY <1>2, <1>4, <1>5, <1>6, <1>7, <1>8 DEF GaveUp, Leaves

LEMMA CreateEmpties ==
  ASSUME TypeInv, ReturnsSpent, NEW q \in Queues, NEW length, NEW size,
         CreateQueue(q, length, size), UNCHANGED request
  PROVE  Emptied(q) /\ ReturnsSpent'
<1>1. /\ blocked_list \in [BlockedLists -> Seq(Indexable)]
      /\ queue \in [Queues -> {qu \in Queue : RingOK(qu)}]
  BY DEF TypeInv, CommTypeInv
<1>2. \A m \in BlockedLists :
        blocked_list'[m] = IF m \in {SendList(q), ReceiveList(q)} THEN <<>> ELSE blocked_list[m]
  BY <1>1 DEF CreateQueue
<1>3. \A r \in Queues, x \in Resumes : ListOf(r, x) \in {SendList(q), ReceiveList(q)} <=> r = q
  BY DEF ListOf, SendList, ReceiveList
<1>4. \A r \in Queues, x \in Resumes :
        blocked_list'[ListOf(r, x)] = IF r = q THEN <<>> ELSE blocked_list[ListOf(r, x)]
  BY <1>2, <1>3, ListOfKnown
<1>5. \A r \in Queues : r # q => queue'[r] = queue[r]
  BY <1>1 DEF CreateQueue
<1>6. UNCHANGED <<pc, ret>>
  BY DEF CreateQueue, schedVars
<1> QED
  BY <1>4, <1>5, <1>6, PcKept DEF Emptied

\* What a step does to those who wait for queues, in one formula.
QueueEffect ==
  \/ Untouched
  \/ \E q \in Queues : Emptied(q)
  \/ \E t \in Tasks, q \in Queues, resume \in Resumes :
       Joined(t, q, resume) \/ GaveUp(t, q, resume) \/ Transfers(t, q, resume)

LEMMA QueueEffects ==
  ASSUME SwitchesAtOnce, TypeInv, LinkInv, SchedInv, NoTimers, ReturnsSpent, WaitersExist,
         QueueStep
  PROVE  QueueEffect /\ ReturnsSpent'
<1> USE DEF QueueEffect
<1>1. "send_resume" \in Resumes /\ "receive_resume" \in Resumes
  BY DEF Resumes
<1>2. \A q \in Queues : /\ Full(q) => Due(q, "send_resume") = 0
                        /\ Empty(q) => Due(q, "receive_resume") = 0
                        /\ ListOf(q, "send_resume") = SendList(q)
                        /\ ListOf(q, "receive_resume") = ReceiveList(q)
  <2>1. \A q \in Queues : queue[q].capacity \in Nat
    BY RingNumbers DEF TypeInv, CommTypeInv
  <2> QED
    BY <2>1 DEF Full, Empty, Due, ListOf
<1>3. ASSUME NEW q \in Queues, NEW length \in QueueLengths, NEW size \in SlotSizes,
             CreateQueue(q, length, size)
      PROVE  QueueEffect /\ ReturnsSpent'
  BY <1>3, CreateEmpties DEF CreateQueue
<1>4. CASE CreateQueueFails
  <2>1. UNCHANGED <<pc, ret, request, queue, blocked_list>>
    BY <1>4 DEF CreateQueueFails, schedVars, queueVars
  <2> QED
    BY <2>1, PcKept DEF Untouched, ListsKept
<1>5. ASSUME NEW t \in Tasks, NEW q \in Queues, NEW d \in Messages, SendNow(t, q, d)
      PROVE  QueueEffect /\ ReturnsSpent'
  BY <1>1, <1>5, PushTransfers DEF SendNow, SendCall, Calling, At
<1>6. ASSUME NEW t \in Tasks, NEW q \in Queues, NEW d \in Messages, NEW ms \in Timeouts,
             SendWait(t, q, d, ms)
      PROVE  QueueEffect /\ ReturnsSpent'
  <2>1. Joined(t, q, "send_resume") /\ ReturnsSpent'
    BY <1>1, <1>2, <1>6, WaitJoins DEF SendWait, SendCall, Calling, At
  <2> QED
    BY <1>1, <2>1
<1>7. ASSUME NEW t \in Tasks, NEW q \in Queues, NEW ms \in Timeouts, ReceiveWait(t, q, ms)
      PROVE  QueueEffect /\ ReturnsSpent'
  <2>1. Joined(t, q, "receive_resume") /\ ReturnsSpent'
    BY <1>1, <1>2, <1>7, WaitJoins DEF ReceiveWait, ReceiveCall, Calling, At
  <2> QED
    BY <1>1, <2>1
<1>8. ASSUME NEW t \in Tasks, NEW q \in Queues, NEW ms \in Timeouts,
             SendRefused(t, q, ms) \/ ReceiveRefused(t, q, ms)
      PROVE  QueueEffect /\ ReturnsSpent'
  <2>1. CASE SendRefused(t, q, ms)
    <3>1. GaveUp(t, q, "send_resume") /\ ReturnsSpent'
      BY <1>1, <1>2, <2>1, ReturnGivesUp DEF SendRefused, SendCall, Calling, At
    <3> QED
      BY <1>1, <3>1
  <2>2. CASE ReceiveRefused(t, q, ms)
    <3>1. GaveUp(t, q, "receive_resume") /\ ReturnsSpent'
      BY <1>1, <1>2, <2>2, ReturnGivesUp DEF ReceiveRefused, ReceiveCall, Calling, At
    <3> QED
      BY <1>1, <3>1
  <2> QED
    BY <1>8, <2>1, <2>2
<1>9. ASSUME NEW t \in Tasks, NEW q \in Queues, ReceiveNow(t, q)
      PROVE  QueueEffect /\ ReturnsSpent'
  BY <1>1, <1>9, PopTransfers DEF ReceiveNow, ReceiveCall, Calling, At
<1>10. ASSUME NEW t \in Tasks, NEW q \in Queues, SendResume(t, q)
       PROVE  QueueEffect /\ ReturnsSpent'
  <2>1. Executing(t) /\ pc[t] = "send_resume" /\ request[t].queue = q
    BY <1>10 DEF SendResume, At
  <2>2. CASE Full(q)
    <3>1. GaveUp(t, q, "send_resume") /\ ReturnsSpent'
      BY <1>1, <1>2, <1>10, <2>1, <2>2, ReturnGivesUp DEF SendResume
    <3> QED
      BY <1>1, <3>1
  <2>3. CASE ~Full(q)
    BY <1>1, <1>10, <2>1, <2>3, PushTransfers DEF SendResume
  <2> QED
    BY <2>2, <2>3
<1>11. ASSUME NEW t \in Tasks, NEW q \in Queues, ReceiveResume(t, q)
       PROVE  QueueEffect /\ ReturnsSpent'
  <2>1. Executing(t) /\ pc[t] = "receive_resume" /\ request[t].queue = q
    BY <1>11 DEF ReceiveResume, At
  <2>2. CASE Empty(q)
    <3>1. GaveUp(t, q, "receive_resume") /\ ReturnsSpent'
      BY <1>1, <1>2, <1>11, <2>1, <2>2, ReturnGivesUp DEF ReceiveResume
    <3> QED
      BY <1>1, <3>1
  <2>3. CASE ~Empty(q)
    BY <1>1, <1>11, <2>1, <2>3, PopTransfers DEF ReceiveResume
  <2> QED
    BY <2>2, <2>3
<1>12. ASSUME NEW t \in Tasks, QueueArm(t) PROVE FALSE
  BY <1>12 DEF QueueArm, At, NoTimers
<1>13. ASSUME NEW t \in Tasks, QueueExit(t)
       PROVE  QueueEffect /\ ReturnsSpent'
  <2>1. /\ pc[t] = "queue_exit" /\ Goto(t, "user")
        /\ UNCHANGED <<ret, request, queue, blocked_list>>
    BY <1>13 DEF QueueExit, At, queueVars
  <2> QED
    BY <2>1, OtherCalls DEF Untouched, ListsKept
<1> QED
  BY <1>3, <1>4, <1>5, <1>6, <1>7, <1>8, <1>9, <1>10, <1>11, <1>12, <1>13 DEF QueueStep

LEMMA WakeStep ==
  ASSUME SwitchesAtOnce, TypeInv, LinkInv, SchedInv, NoTimers, WakeInv, [Next]_vars
  PROVE  WakeInv'
<1> USE DEF WakeInv
<1>1. QueueEffect /\ ReturnsSpent'
  <2>1. CASE SchedulerStep
    BY <2>1, SchedulerUntouched DEF QueueEffect
  <2>2. CASE TimerStep
    BY <2>2, TimerUntouched DEF QueueEffect
  <2>3. CASE SemaphoreStep
    BY <2>3, SemaphoreUntouched DEF QueueEffect
  <2>4. CASE QueueStep
    BY <2>4, QueueEffects
  <2>5. CASE UNCHANGED vars
    <3>1. UNCHANGED <<pc, ret, request, queue, blocked_list>>
      BY <2>5 DEF vars, schedVars, queueVars
    <3> QED
      BY <3>1, PcKept DEF QueueEffect, Untouched, ListsKept
  <2> QED
    BY <2>1, <2>2, <2>3, <2>4, <2>5 DEF Next
<1>2. WaitersCall' /\ AllServed'
  BY <1>1, UntouchedServed, EmptiedServed, JoinedServed, GaveUpServed, TransferServed
  DEF QueueEffect
<1> QED
  BY <1>1, <1>2, WaitersExistStep

LEMMA WakeInit == Init => WakeInv
<1> SUFFICES ASSUME Init PROVE WakeInv
  OBVIOUS
<1>1. \A l \in BlockedLists : blocked_list[l] = <<>>
  BY DEF Init, ListInit
<1>2. \A t \in Tasks, l \in BlockedLists : ~WaitsFor(t, l)
  BY <1>1 DEF WaitsFor, Range
<1>3. WaitersCall /\ WaitersExist /\ AllServed
  BY <1>1, <1>2, ListOfKnown DEF WaitersCall, WaitersExist, Waits, AllServed, Served
<1>4. ReturnsSpent
  BY DEF Init, SchedInit, ReturnsSpent
<1> QED
  BY <1>3, <1>4 DEF WakeInv

\* Without ticks and time limits nobody sleeps through a datum or a free slot,
\* whatever number of tasks sends and receives: a send hands its datum to
\* nobody, but for each that is in a queue somebody waits for, a task is on its
\* way that was woken for it and has not looked yet.
THEOREM NobodySleeps ==
  ASSUME SwitchesAtOnce
  PROVE  Spec => []NoIdleWaiters
<1>1. TypeInv /\ LinkInv /\ ReadyBitmapExact /\ NoTimers /\ SchedInv /\ WakeInv /\ [Next]_vars
        => NoTimers' /\ WakeInv'
  BY NoTimersStep, WakeStep
<1>2. WakeInv => NoIdleWaiters
  BY AllServedExact DEF WakeInv
<1> QED
  BY <1>1, <1>2, SchedInvInit, WakeInit, SchedInvariance, PTL DEF Spec
=============================================================================
