----------------------------- MODULE LinkedLists -----------------------------
(***************************************************************************)
(* The lists themselves: the next and prev pointers of the tasks and the   *)
(* timers, as list.c, yield_task and timer.c relink them.  The other       *)
(* modules take a list for the sequence of its members; here each          *)
(* operation is shown to do to the pointers what those modules do to the   *)
(* sequences.                                                              *)
(*                                                                         *)
(* Which operation comes when is left open, but for what the kernel keeps  *)
(* to (LinkedOnce and TimerPoolExact): a task is in no list when it is put *)
(* into one, and has no timer when it gets one.  An operation is one step. *)
(* NULL has no links: an EXCEPT at NULL changes nothing, which is what the *)
(* tests for NULL in the code are for.                                     *)
(***************************************************************************)
EXTENDS Integers, FiniteSets, SequencesExt

CONSTANTS Tasks, NULL, Priority, MAX_NUM_TASKS, BlockedLists,
          MAX_NUM_TIMERS, UINT32_MODULUS, Delays

\* The tasks that list.c is given: every one has an entry of task_list, a fixed
\* array, and a priority that is an index of ready_list.
ASSUME NodesAssumption ==
  /\ IsFiniteSet(Tasks)
  /\ NULL \notin Tasks
  /\ \A t \in Tasks : Priority[t] \in 0..(MAX_NUM_TASKS - 1)

\* The timers of timer_list, another fixed array, and what a delay field holds.
ASSUME DelaysAssumption ==
  /\ MAX_NUM_TIMERS \in Nat
  /\ UINT32_MODULUS \in Nat \ {0, 1}
  /\ Delays \subseteq 0..(UINT32_MODULUS - 1)

VARIABLES ready_list, ready_bitmap,   \* the heads of the ready lists, and their bits
          blocked_list,               \* the heads of the lists of blocked tasks
          next, prev,                 \* the links of the tasks
          delay_list,                 \* the head of the delay list
          timer_bitmap,               \* the free timers
          timer                       \* the struct of each timer

taskVars == <<ready_list, ready_bitmap, blocked_list, next, prev>>
timerVars == <<delay_list, timer_bitmap, timer>>
vars == <<taskVars, timerVars>>

Priorities == 0..(MAX_NUM_TASKS - 1)
TimerIds == 0..(MAX_NUM_TIMERS - 1)
NO_TIMER == MAX_NUM_TIMERS  \* the NULL timer pointer
FreeTimer == [delay |-> 0, task |-> NULL, next |-> NO_TIMER, prev |-> NO_TIMER]

-----------------------------------------------------------------------------
(* Following the pointers.                                                 *)

\* The node and those behind it up to the one that links to stop, or fuel of them.
Walk(link, node, stop, fuel) ==
  LET from[n \in 0..fuel] == [at \in DOMAIN link |->
        IF n = 0 THEN <<>>
        ELSE <<at>> \o (IF link[at] = stop THEN <<>> ELSE from[n - 1][link[at]])]
  IN  from[fuel][node]

ReadyTasks(p) ==
  LET head == ready_list[p]
  IN  IF head = NULL THEN <<>> ELSE Walk(next, head, head, Cardinality(Tasks))

BlockedTasks(l) ==
  LET head == blocked_list[l]
  IN  IF head = NULL THEN <<>> ELSE Walk(next, head, NULL, Cardinality(Tasks))

TimerChain ==
  IF delay_list = NO_TIMER THEN <<>>
  ELSE Walk([id \in TimerIds |-> timer[id].next], delay_list, NO_TIMER, MAX_NUM_TIMERS)

InNoList(t) ==
  /\ \A p \in Priorities : t \notin Range(ReadyTasks(p))
  /\ \A l \in BlockedLists : t \notin Range(BlockedTasks(l))

-----------------------------------------------------------------------------
(* Ready lists are circular.                                               *)

insert_into_ready_list(t) ==
  LET p == Priority[t]
      head == ready_list[p]
      tail == prev[head]
  IN  /\ IF head = NULL
         THEN /\ ready_list' = [ready_list EXCEPT ![p] = t]
              /\ next' = [next EXCEPT ![t] = t]
              /\ prev' = [prev EXCEPT ![t] = t]
         ELSE /\ next' = [next EXCEPT ![t] = head, ![tail] = t]
              /\ prev' = [prev EXCEPT ![t] = tail, ![head] = t]
              /\ UNCHANGED ready_list
      /\ ready_bitmap' = ready_bitmap \cup {p}
      /\ UNCHANGED <<blocked_list, timerVars>>

remove_from_ready_list(t) ==
  LET p == Priority[t]
  IN  /\ t = ready_list[p]
      /\ IF t # next[t] /\ t # prev[t]
         THEN /\ ready_list' = [ready_list EXCEPT ![p] = next[t]]
              /\ next' = [next EXCEPT ![prev[t]] = next[t], ![t] = NULL]
              /\ prev' = [prev EXCEPT ![next[t]] = prev[t], ![t] = NULL]
              /\ UNCHANGED ready_bitmap
         ELSE /\ ready_list' = [ready_list EXCEPT ![p] = NULL]
              /\ next' = [next EXCEPT ![t] = NULL]
              /\ prev' = [prev EXCEPT ![t] = NULL]
              /\ ready_bitmap' = ready_bitmap \ {p}
      /\ UNCHANGED <<blocked_list, timerVars>>

WrongRelinked(t, head, tail) ==
  /\ next' = [next EXCEPT ![prev[t]] = next[t], ![t] = head, ![tail] = t]
  /\ prev' = [prev EXCEPT ![next[t]] = prev[t], ![t] = tail]

\* A task in the middle goes between the tail and the head.
Relinked(t, head, tail) ==
  /\ next' = [next EXCEPT ![prev[t]] = next[t], ![t] = head, ![tail] = t]
  /\ prev' = [prev EXCEPT ![next[t]] = prev[t], ![t] = tail, ![head] = t]

\* What yield_task does to the list of the task t.
yield_task(t) ==
  LET p == Priority[t]
      head == ready_list[p]
      tail == prev[head]
  IN  /\ t \in Range(ReadyTasks(p))
      /\ \/ /\ t = head
            /\ ready_list' = [ready_list EXCEPT ![p] = next[t]]
            /\ UNCHANGED <<next, prev>>
         \/ /\ t # head /\ t # tail
            /\ Relinked(t, head, tail)
            /\ ready_list' = [ready_list EXCEPT ![p] = next'[t]]
         \/ /\ t # head /\ t = tail
            /\ UNCHANGED <<ready_list, next, prev>>
      /\ UNCHANGED <<ready_bitmap, blocked_list, timerVars>>

-----------------------------------------------------------------------------
(* Lists of blocked tasks end with NULL.                                   *)

\* The two neighbours at place k of a list: NULL where it begins and ends.
Before(list, k, null) == IF k = 1 THEN null ELSE list[k - 1]
Behind(list, k, null) == IF k > Len(list) THEN null ELSE list[k]

insert_into_blocked_list(l, t) ==
  LET list == BlockedTasks(l)
  IN  /\ \E k \in 1..(Len(list) + 1) :
           LET prev_task == Before(list, k, NULL)
               next_task == Behind(list, k, NULL)
           IN  /\ \A i \in 1..(k - 1) : Priority[t] <= Priority[list[i]]
               /\ next_task # NULL => Priority[t] > Priority[next_task]
               /\ next' = [next EXCEPT ![t] = next_task, ![prev_task] = t]
               /\ prev' = [prev EXCEPT ![t] = prev_task, ![next_task] = t]
               /\ blocked_list' = IF prev_task = NULL
                                    THEN [blocked_list EXCEPT ![l] = t] ELSE blocked_list
      /\ UNCHANGED <<ready_list, ready_bitmap, timerVars>>

\* The code takes a task out wherever it is; its callers, the head only.
remove_from_blocked_list(l, t) ==
  /\ t \in Range(BlockedTasks(l))
  /\ next' = [next EXCEPT ![prev[t]] = next[t], ![t] = NULL]
  /\ prev' = [prev EXCEPT ![next[t]] = prev[t], ![t] = NULL]
  /\ blocked_list' = IF prev[t] = NULL
                       THEN [blocked_list EXCEPT ![l] = next[t]] ELSE blocked_list
  /\ UNCHANGED <<ready_list, ready_bitmap, timerVars>>

-----------------------------------------------------------------------------
(* The delay list, and the delays in it.                                   *)

HasNoTimer(t) == \A id \in Range(TimerChain) : timer[id].task # t

\* set_timer up to the change of state: the loop takes the delay of every timer
\* it passes off the new one, and the timer behind keeps the difference.
set_timer(t, ms) ==
  LET list == TimerChain
      left[k \in 0..Len(list)] ==
        IF k = 0 THEN ms ELSE left[k - 1] - timer[list[k]].delay
  IN  /\ \E id \in timer_bitmap, k \in 1..(Len(list) + 1) :
           LET prev_timer == Before(list, k, NO_TIMER)
               next_timer == Behind(list, k, NO_TIMER)
               delay == left[k - 1]
           IN  /\ \A other \in timer_bitmap : other <= id
               /\ \A i \in 0..(k - 1) : left[i] >= 0
               /\ next_timer # NO_TIMER => delay < timer[next_timer].delay
               /\ timer' = [timer EXCEPT
                    ![id] = [delay |-> delay, task |-> t,
                             next |-> next_timer, prev |-> prev_timer],
                    ![next_timer].delay = @ - delay, ![next_timer].prev = id,
                    ![prev_timer].next = id]
               /\ delay_list' = IF prev_timer = NO_TIMER THEN id ELSE delay_list
               /\ timer_bitmap' = timer_bitmap \ {id}
      /\ UNCHANGED taskVars

\* Taking a timer out of the list and giving its ticks to the one behind it.
Unlinked(id, ticks) ==
  LET old == timer[id]
  IN  /\ timer' = [timer EXCEPT
           ![old.next].delay = (@ + ticks) % UINT32_MODULUS, ![old.next].prev = old.prev,
           ![old.prev].next = old.next,
           ![id] = FreeTimer]
      /\ delay_list' = IF old.prev = NO_TIMER THEN old.next ELSE delay_list
      /\ timer_bitmap' = timer_bitmap \cup {id}

WrongTicks(id) == 0

TicksToPassOn(id) == timer[id].delay

clear_timer(t) ==
  /\ \E id \in Range(TimerChain) :
       timer[id].task = t /\ Unlinked(id, TicksToPassOn(id))
  /\ UNCHANGED taskVars

\* The task of the timer stays in it, but nobody reads it any more.
service_timers ==
  /\ delay_list # NO_TIMER
  /\ LET left == (timer[delay_list].delay + UINT32_MODULUS - 1) % UINT32_MODULUS
     IN  IF left = 0 THEN Unlinked(delay_list, 0)
         ELSE /\ timer' = [timer EXCEPT ![delay_list].delay = left]
              /\ UNCHANGED <<delay_list, timer_bitmap>>
  /\ UNCHANGED taskVars

-----------------------------------------------------------------------------
Init ==
  /\ ready_list = [p \in Priorities |-> NULL]
  /\ ready_bitmap = {}
  /\ blocked_list = [l \in BlockedLists |-> NULL]
  /\ next = [t \in Tasks |-> NULL]
  /\ prev = [t \in Tasks |-> NULL]
  /\ delay_list = NO_TIMER
  /\ timer_bitmap = TimerIds
  /\ timer = [id \in TimerIds |-> FreeTimer]

Next ==
  \/ \E t \in Tasks :
       \/ InNoList(t) /\ insert_into_ready_list(t)
       \/ remove_from_ready_list(t)
       \/ yield_task(t)
       \/ \E l \in BlockedLists :
            \/ InNoList(t) /\ insert_into_blocked_list(l, t)
            \/ remove_from_blocked_list(l, t)
       \/ HasNoTimer(t) /\ \E ms \in Delays : set_timer(t, ms)
       \/ clear_timer(t)
  \/ service_timers

Spec == Init /\ [][Next]_vars

-----------------------------------------------------------------------------
(* The sequences of the other modules.  What the operations on lists do not *)
(* read or write has a value of no consequence.                            *)

ReadySequences == [p \in Priorities |-> ReadyTasks(p)]
BlockedSequences == [l \in BlockedLists |-> BlockedTasks(l)]
DelaySequence ==
  LET list == TimerChain
  IN  [i \in 1..Len(list) |->
         [id |-> list[i], task |-> timer[list[i]].task, delay |-> timer[list[i]].delay]]

Sequences ==
  INSTANCE Timers WITH
    Idle <- NULL, NoTask <- NULL, MAX_PRIORITY <- 0, Calls <- {}, NVIC_PRIO_BITS <- 8,
    basepri <- 0, pendsv <- FALSE, highest_prio_task_ptr <- NULL, curr_task_ptr <- NULL,
    task_state <- [t \in Tasks |-> "WAITING_SEMA"],
    task_list <- {}, pc <- <<>>, idx <- <<>>, picked <- <<>>, ret <- <<>>,
    boot <- "kernel", wild <- FALSE,
    armed <- [t \in Tasks |-> [id |-> NO_TIMER, task |-> NULL]],
    ready_list <- ReadySequences, blocked_list <- BlockedSequences,
    delay_list <- DelaySequence

\* Each operation on the pointers is the operation on sequences that the rest
\* of the project takes it for, and leaves the lists it does not name alone.
TaskListsAreSequences ==
  /\ UNCHANGED DelaySequence
  /\ \A t \in Tasks :
       /\ insert_into_ready_list(t) /\ InNoList(t) =>
            Sequences!insert_into_ready_list(t) /\ UNCHANGED BlockedSequences
       /\ remove_from_ready_list(t) =>
            Sequences!remove_from_ready_list(t) /\ UNCHANGED BlockedSequences
       /\ yield_task(t) =>
            /\ \E i \in DOMAIN ReadySequences[Priority[t]] :
                 /\ ReadySequences[Priority[t]][i] = t
                 /\ ReadySequences' = [ReadySequences EXCEPT
                                         ![Priority[t]] = Append(RemoveAt(@, i), t)]
            /\ UNCHANGED BlockedSequences
  /\ \A t \in Tasks, l \in BlockedLists :
       /\ insert_into_blocked_list(l, t) /\ InNoList(t) =>
            /\ \E k \in 1..(Len(BlockedSequences[l]) + 1) :
                 /\ Sequences!BlockedPlace(BlockedSequences[l], t, k)
                 /\ BlockedSequences' = [BlockedSequences EXCEPT ![l] = InsertAt(@, k, t)]
            /\ UNCHANGED ReadySequences
       /\ remove_from_blocked_list(l, t) =>
            /\ \E k \in DOMAIN BlockedSequences[l] :
                 /\ BlockedSequences[l][k] = t
                 /\ BlockedSequences' = [BlockedSequences EXCEPT ![l] = RemoveAt(@, k)]
            /\ UNCHANGED ReadySequences

DelayListIsSequence ==
  /\ UNCHANGED <<ReadySequences, BlockedSequences>>
  /\ \A t \in Tasks, ms \in Delays :
       set_timer(t, ms) /\ HasNoTimer(t) =>
         \E id \in TimerIds, k \in 1..(Len(DelaySequence) + 1), left \in 0..ms :
           /\ Sequences!get_timer_instance(id)
           /\ Sequences!ScanStopsAt(ms, k, left)
           /\ Sequences!InsertTimer([id |-> id, task |-> t, delay |-> left], k)
  /\ \A t \in Tasks : clear_timer(t) => Sequences!clear_timer(t)
  /\ service_timers =>
       \/ Sequences!TickCount
       \/ /\ DelaySequence' = Tail(DelaySequence)
          /\ Sequences!return_timer_instance(Head(DelaySequence).id)

ListsAreSequences ==
  [][IF UNCHANGED timerVars THEN TaskListsAreSequences ELSE DelayListIsSequence]_vars

\* The two directions of every list agree, and the links of a task that is in
\* no list are NULL: a task can be taken out by its own links, and nobody gets
\* at it by those of another.
DoublyLinked ==
  /\ \A p \in Priorities, t \in Tasks :
       t \in Range(ReadyTasks(p)) => next[prev[t]] = t /\ prev[next[t]] = t
  /\ \A l \in BlockedLists : LET list == BlockedTasks(l) IN
       \A k \in DOMAIN list :
         prev[list[k]] = Before(list, k, NULL) /\ next[list[k]] = Behind(list, k + 1, NULL)
  /\ LET list == TimerChain IN
       \A k \in DOMAIN list : timer[list[k]].prev = Before(list, k, NO_TIMER)
  /\ \A t \in Tasks : InNoList(t) => next[t] = NULL /\ prev[t] = NULL
=============================================================================
