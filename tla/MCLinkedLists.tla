---------------------------- MODULE MCLinkedLists ----------------------------
(* Three tasks of one priority, so that one can be in the middle, and one above. *)
EXTENDS LinkedLists

CONSTANTS t1, t2, t3, t4

Levels == (t1 :> 0) @@ (t2 :> 0) @@ (t3 :> 0) @@ (t4 :> 1)

EqualTasks == Permutations({t1, t2, t3})
=============================================================================
