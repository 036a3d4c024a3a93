----------------------------- MODULE TaskLists ------------------------------
(***************************************************************************)
(* list.c: the ready lists, the lists of blocked tasks and the task state  *)
(* transitions.  A circular or a NULL-terminated doubly linked list is the *)
(* sequence of its tasks from its head; the tail of a ready list is        *)
(* head->prev, the last of the sequence.                                   *)
(***************************************************************************)
EXTENDS Platform, SequencesExt

CONSTANTS Tasks,            \* the user tasks (a task is its id and its TCB)
          Idle,             \* idle_task
          NoTask,           \* the NULL task pointer
          Priority,         \* the priority each task is created with
          MAX_NUM_TASKS,    \* entries of ready_list (and of task_list)
          BlockedLists      \* the list heads of semaphores and queues

ASSUME TasksAssumption ==
  /\ Idle \notin Tasks
  /\ NoTask \notin Tasks \cup {Idle}
  /\ \A t \in Tasks : Priority[t] \in Nat
  /\ MAX_NUM_TASKS \in Nat

\* Every task that exists has an entry of task_list, a fixed array.
ASSUME FinitelyManyTasks == IsFiniteSet(Tasks)

VARIABLES task_state,            \* TCB field
          ready_list,            \* one sequence of tasks per priority
          ready_bitmap,          \* the set of the priorities whose bit is set
          blocked_list,          \* the sequence behind each of BlockedLists
          curr_task_ptr,
          highest_prio_task_ptr

\* The ready lists and the tasks; blocked_list is separate, because fewer
\* operations touch it.
listVars ==
  <<task_state, ready_list, ready_bitmap, curr_task_ptr, highest_prio_task_ptr>>

Priorities == 0..(MAX_NUM_TASKS - 1)
TaskPtr == Tasks \cup {Idle, NoTask}

\* "ABSENT" is a TCB no create_task has filled in.
TaskState == {"RUNNING", "READY", "DELAY", "WAITING_SEND", "WAITING_RECV",
              "WAITING_SEMA", "PREEMPTED", "ABSENT"}

HeadOf(list) == IF list = <<>> THEN NoTask ELSE Head(list)

-----------------------------------------------------------------------------
(* Ready lists.                                                            *)

WrongInsertAtHead(t) ==
  /\ ready_list' = [ready_list EXCEPT ![Priority[t]] = <<t>> \o @]
  /\ ready_bitmap' = ready_bitmap \cup {Priority[t]}

\* At the tail, head->prev.
insert_into_ready_list(t) ==
  /\ ready_list' = [ready_list EXCEPT ![Priority[t]] = Append(@, t)]
  /\ ready_bitmap' = ready_bitmap \cup {Priority[t]}

\* The three conditions under which remove_from_ready_list does not give up;
\* running_to_blocked, running_to_delayed and is_task_delayable repeat them.
Removable(t) ==
  /\ t = curr_task_ptr
  /\ t = HeadOf(ready_list[Priority[t]])
  /\ task_state[t] = "RUNNING"

WrongBitStays(t) ==
  /\ ready_list' = [ready_list EXCEPT ![Priority[t]] = Tail(@)]
  /\ UNCHANGED ready_bitmap

WrongKeepsSharedHead(t) ==
  /\ ready_list' = [ready_list EXCEPT ![Priority[t]] = IF Len(@) = 1 THEN <<>> ELSE @]
  /\ ready_bitmap' = {p \in ready_bitmap : ready_list'[p] # <<>>}

WrongDropsEquals(t) ==
  /\ ready_list' = [ready_list EXCEPT ![Priority[t]] = <<>>]
  /\ ready_bitmap' = ready_bitmap \ {Priority[t]}

remove_from_ready_list(t) ==
  LET rest == Tail(ready_list[Priority[t]])
  IN  /\ ready_list' = [ready_list EXCEPT ![Priority[t]] = rest]
      /\ ready_bitmap' = IF rest = <<>> THEN ready_bitmap \ {Priority[t]}
                                        ELSE ready_bitmap

-----------------------------------------------------------------------------
(* Lists of blocked tasks: by priority, first come first among equals.     *)

WrongAtTail(list, t, k) == k = Len(list) + 1

WrongAheadOfEquals(list, t, k) ==
  /\ \A i \in 1..(k - 1) : Priority[t] < Priority[list[i]]
  /\ k <= Len(list) => Priority[t] >= Priority[list[k]]

\* The place the loop of insert_into_blocked_list stops at: behind every task
\* whose priority is not lower.
BlockedPlace(list, t, k) ==
  /\ \A i \in 1..(k - 1) : Priority[t] <= Priority[list[i]]
  /\ k <= Len(list) => Priority[t] > Priority[list[k]]

\* The states of a task in a list of blocked tasks, and all the states from
\* which blocked_to_ready makes a task ready.
WaitingState == {"WAITING_SEND", "WAITING_RECV", "WAITING_SEMA"}
BlockedState == WaitingState \cup {"DELAY"}

WrongStaysBlocked(list) == list
WrongForgetsRest(list) == IF task_state[Head(list)] = "DELAY" THEN list ELSE <<>>

\* The list a task blocks in after remove_from_blocked_list has taken its head:
\* a delayed task is in no such list.
remove_from_blocked_list(list) ==
  IF task_state[Head(list)] = "DELAY" THEN list ELSE Tail(list)

\* change_task_state of the current task t to a waiting state, in list l.
BlockIn(t, l, state) ==
  /\ Removable(t)
  /\ remove_from_ready_list(t)
  /\ \E k \in 1..(Len(blocked_list[l]) + 1) :
       /\ BlockedPlace(blocked_list[l], t, k)
       /\ blocked_list' = [blocked_list EXCEPT ![l] = InsertAt(@, k, t)]
  /\ task_state' = [task_state EXCEPT ![t] = state]

\* change_task_state of the head of list l to READY: blocked_to_ready refuses
\* a head that is in no blocked state.
Wakeable(l) == task_state[Head(blocked_list[l])] \in BlockedState

WakeHead(l) ==
  LET waiter == Head(blocked_list[l])
  IN  /\ Wakeable(l)
      /\ blocked_list' = [blocked_list EXCEPT ![l] = remove_from_blocked_list(@)]
      /\ insert_into_ready_list(waiter)
      /\ task_state' = [task_state EXCEPT ![waiter] = "READY"]

-----------------------------------------------------------------------------
(* ready_to_running, as change_task_state calls it for the task that       *)
(* schedule has picked: its guard, and then the demotion of the current    *)
(* task.  change_task_state stores RUNNING afterwards.                     *)

WrongNeverResumed(states, t) == t # NoTask /\ states[t] = "READY"

\* change_task_state and ready_to_running give up at once otherwise.
Runnable(states, t) == t # NoTask /\ states[t] \in {"READY", "PREEMPTED"}

ready_to_running(states, curr, highest, t) ==
  Runnable(states, t) /\ curr # highest /\ highest = t

WrongStaysRunning(states, curr) == states

PreemptCurrent(states, curr) ==
  IF states[curr] = "RUNNING" THEN [states EXCEPT ![curr] = "PREEMPTED"]
                              ELSE states

-----------------------------------------------------------------------------
ListInit ==
  /\ task_state = [t \in Tasks \cup {Idle} |->
                     IF t = Idle THEN "RUNNING" ELSE "ABSENT"]
  /\ ready_list = [p \in Priorities |-> <<>>]
  /\ ready_bitmap = {}
  /\ blocked_list = [l \in BlockedLists |-> <<>>]
  /\ curr_task_ptr = NoTask
  /\ highest_prio_task_ptr = NoTask

ListTypeOK ==
  /\ task_state \in [Tasks \cup {Idle} -> TaskState]
  /\ ready_list \in [Priorities -> Seq(Tasks)]
  /\ ready_bitmap \in SUBSET Priorities
  /\ blocked_list \in [BlockedLists -> Seq(Tasks)]
  /\ curr_task_ptr \in TaskPtr
  /\ highest_prio_task_ptr \in TaskPtr
=============================================================================
