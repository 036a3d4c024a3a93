---------------------------- MODULE MessageQueue ----------------------------
(***************************************************************************)
(* What queue.c promises the tasks that use it: a bounded FIFO.  A task    *)
(* sends from its buffer and receives into it; when it has to wait, and for*)
(* whom, is not said.                                                      *)
(***************************************************************************)
EXTENDS Naturals, Sequences

CONSTANTS Queues, QueueLengths, Tasks, Messages, NoMessage

VARIABLES items,            \* what each queue holds, oldest first
          capacity,         \* how much it may hold; 0 before it is created
          buffer            \* the datum each task sends or has received

Init ==
  /\ items = [q \in Queues |-> <<>>]
  /\ capacity = [q \in Queues |-> 0]
  /\ buffer = [t \in Tasks |-> NoMessage]

\* A queue starts empty, also when it is created again.
Create(q) ==
  /\ items' = [items EXCEPT ![q] = <<>>]
  /\ \E length \in QueueLengths \ {0} : capacity' = [capacity EXCEPT ![q] = length]
  /\ UNCHANGED buffer

\* A task that is going to wait holds its datum ready.
Prepare(t) ==
  /\ \E d \in Messages : buffer' = [buffer EXCEPT ![t] = d]
  /\ UNCHANGED <<items, capacity>>

\* The datum is in the buffer from the moment of the call, or from before.
Send(t, q) ==
  /\ Len(items[q]) < capacity[q]
  /\ items' = [items EXCEPT ![q] = Append(@, buffer'[t])]
  /\ \/ \E d \in Messages : buffer' = [buffer EXCEPT ![t] = d]
     \/ UNCHANGED buffer
  /\ UNCHANGED capacity

Receive(t, q) ==
  /\ items[q] # <<>>
  /\ buffer' = [buffer EXCEPT ![t] = Head(items[q])]
  /\ items' = [items EXCEPT ![q] = Tail(@)]
  /\ UNCHANGED capacity

Next ==
  \/ \E q \in Queues : Create(q)
  \/ \E t \in Tasks : Prepare(t)
  \/ \E t \in Tasks, q \in Queues : Send(t, q) \/ Receive(t, q)

Spec == Init /\ [][Next]_<<items, capacity, buffer>>
=============================================================================
