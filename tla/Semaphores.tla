----------------------------- MODULE Semaphores -----------------------------
(***************************************************************************)
(* semaphore.c: counting semaphores with a wait list ordered by priority   *)
(* and direct hand-over: a post that finds a waiter makes it ready and     *)
(* does not touch the count.                                               *)
(***************************************************************************)
EXTENDS Scheduler

CONSTANTS Semaphores,       \* semaphore ids
          SEM_MAX,          \* UINT32_MAX in the code, where a count saturates
          InitialCounts     \* the counts semaphores are created with

ASSUME SemaphoresAssumption ==
  /\ SEM_MAX \in Nat
  /\ InitialCounts \subseteq 0..SEM_MAX
  /\ \A s \in Semaphores : <<s, "wait_list">> \in BlockedLists

VARIABLES sem_list,         \* the semaphores registered in sem_list / sem_bitmap
          sem_val

semVars == <<sem_list, sem_val>>

\* &semaphore->wait_list
WaitList(s) == <<s, "wait_list">>

-----------------------------------------------------------------------------
CreateSemaphore(s, init_val) ==
  /\ Creator /\ ~wild
  /\ s \notin sem_list
  /\ sem_list' = sem_list \cup {s}
  /\ sem_val' = [sem_val EXCEPT ![s] = init_val]
  /\ blocked_list' = [blocked_list EXCEPT ![WaitList(s)] = <<>>]
  /\ enable_ctx_sw
  /\ UNCHANGED <<pendsv, listVars, schedVars>>

CreateSemaphoreRefused(s) ==
  /\ Creator /\ ~wild
  /\ s \in sem_list
  /\ enable_ctx_sw
  /\ UNCHANGED <<pendsv, listVars, blocked_list, schedVars, semVars>>

-----------------------------------------------------------------------------
(* post_semaphore: no enable_ctx_sw before schedule(), nor after it.       *)

WrongOverflows(count) == count + 1

\* The count saturates.
Incremented(count) == IF count < SEM_MAX THEN count + 1 ELSE count

PostCount(t, s) ==
  /\ Calling(t, "post")
  /\ s \in sem_list
  /\ blocked_list[WaitList(s)] = <<>>
  /\ disable_ctx_sw
  /\ sem_val' = [sem_val EXCEPT ![s] = Incremented(@)]
  /\ CallSchedule(t, "user")
  /\ UNCHANGED <<pendsv, listVars, task_list, idx, picked, boot, wild,
                 sem_list, blocked_list>>

\* The head waiter is made ready, unless change_task_state refuses because
\* its state is no longer a blocked one: then the post fails.
PostWake(t, s) ==
  /\ Calling(t, "post")
  /\ s \in sem_list
  /\ blocked_list[WaitList(s)] # <<>>
  /\ WakeHead(WaitList(s))
  /\ disable_ctx_sw
  /\ CallSchedule(t, "user")
  /\ UNCHANGED <<pendsv, curr_task_ptr, highest_prio_task_ptr, task_list, idx,
                 picked, boot, wild, semVars>>

PostRefused(t, s) ==
  /\ Calling(t, "post")
  /\ s \in sem_list =>
       blocked_list[WaitList(s)] # <<>> /\ ~Wakeable(WaitList(s))
  /\ enable_ctx_sw
  /\ UNCHANGED <<pendsv, listVars, blocked_list, schedVars, semVars>>

-----------------------------------------------------------------------------
(* wait_for_semaphore                                                      *)

WrongLastTokenKept(s) == sem_val[s] > 1 /\ blocked_list[WaitList(s)] = <<>>

HasToken(s) == sem_val[s] > 0 /\ blocked_list[WaitList(s)] = <<>>

WaitTake(t, s) ==
  /\ Calling(t, "wait")
  /\ s \in sem_list
  /\ HasToken(s)
  /\ sem_val' = [sem_val EXCEPT ![s] = @ - 1]
  /\ enable_ctx_sw
  /\ CallSchedule(t, "user")
  /\ UNCHANGED <<pendsv, listVars, task_list, idx, picked, boot, wild,
                 sem_list, blocked_list>>

WaitBlock(t, s) ==
  /\ Calling(t, "wait")
  /\ s \in sem_list
  /\ ~HasToken(s)
  /\ BlockIn(t, WaitList(s), "WAITING_SEMA")
  /\ enable_ctx_sw
  /\ CallSchedule(t, "user")
  /\ UNCHANGED <<pendsv, curr_task_ptr, highest_prio_task_ptr, task_list, idx,
                 picked, boot, wild, semVars>>

WaitRefused(t, s) ==
  /\ Calling(t, "wait")
  /\ s \notin sem_list \/ (~HasToken(s) /\ ~Removable(t))
  /\ enable_ctx_sw
  /\ UNCHANGED <<pendsv, listVars, blocked_list, schedVars, semVars>>

-----------------------------------------------------------------------------
SemInit ==
  /\ sem_list = {}
  /\ sem_val = [s \in Semaphores |-> 0]

SemTypeOK ==
  /\ sem_list \in SUBSET Semaphores
  /\ sem_val \in [Semaphores -> 0..SEM_MAX]
=============================================================================
