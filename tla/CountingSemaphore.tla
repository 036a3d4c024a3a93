-------------------------- MODULE CountingSemaphore --------------------------
(***************************************************************************)
(* What semaphore.c promises the tasks that use it: a token that a post    *)
(* gives is either counted or handed to a waiter, never both, and the      *)
(* waiter it is handed to is one of the highest priority.  A post need not *)
(* give one: whether each does is not said here.                           *)
(***************************************************************************)
EXTENDS Naturals

CONSTANTS Semaphores, Tasks, Priority,
          SEM_MAX           \* a post of a semaphore with that many tokens is lost

VARIABLES created,          \* the semaphores that exist
          tokens,           \* what wait can take without blocking
          waiting           \* the tasks that wait for each semaphore

Init ==
  /\ created = {}
  /\ tokens = [s \in Semaphores |-> 0]
  /\ waiting = [s \in Semaphores |-> {}]

Create(s) ==
  /\ s \notin created
  /\ created' = created \cup {s}
  /\ \E count \in 0..SEM_MAX : tokens' = [tokens EXCEPT ![s] = count]
  /\ UNCHANGED waiting

\* A token that nobody waits for is counted.
Post(s) ==
  /\ s \in created
  /\ waiting[s] = {}
  /\ tokens[s] < SEM_MAX
  /\ tokens' = [tokens EXCEPT ![s] = @ + 1]
  /\ UNCHANGED <<created, waiting>>

\* One that somebody waits for goes to a waiter that no waiter outranks.
HandOver(s, t) ==
  /\ s \in created
  /\ t \in waiting[s]
  /\ \A u \in waiting[s] : Priority[u] <= Priority[t]
  /\ waiting' = [waiting EXCEPT ![s] = @ \ {t}]
  /\ UNCHANGED <<created, tokens>>

Take(s) ==
  /\ s \in created
  /\ tokens[s] > 0
  /\ tokens' = [tokens EXCEPT ![s] = @ - 1]
  /\ UNCHANGED <<created, waiting>>

\* Only a task that waits for nothing else waits, and only for want of a token.
Wait(s, t) ==
  /\ s \in created
  /\ tokens[s] = 0
  /\ \A r \in Semaphores : t \notin waiting[r]
  /\ waiting' = [waiting EXCEPT ![s] = @ \cup {t}]
  /\ UNCHANGED <<created, tokens>>

Next ==
  \E s \in Semaphores :
    \/ Create(s) \/ Post(s) \/ Take(s)
    \/ \E t \in Tasks : HandOver(s, t) \/ Wait(s, t)

Spec == Init /\ [][Next]_<<created, tokens, waiting>>
=============================================================================
