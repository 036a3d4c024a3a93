------------------------------ MODULE MCKernel ------------------------------
(* Values for the constants of Kernel. *)
EXTENDS Kernel

CONSTANTS t1, t2, t3, t4

\* Two tasks of one priority and two above them.
PriorityTwoLevels == (t1 :> 0) @@ (t2 :> 0) @@ (t3 :> 1) @@ (t4 :> 1)

\* t1 and t2 may be exchanged: they have the same priority.
EqualTasks == Permutations({t1, t2})

\* The list heads in the structs of the semaphores and the queues.
AllLists ==
  (Semaphores \X {"wait_list"})
    \cup (Queues \X {"waiting_to_send_list", "waiting_to_receive_list"})

NoTimeout == {0}
ZeroOrForever == {-1, 0}
AnyTimeout == {-1, 0, 1}
=============================================================================
