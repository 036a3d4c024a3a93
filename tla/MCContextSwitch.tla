--------------------------- MODULE MCContextSwitch ---------------------------
(* Stacks side by side in memory, some of them not 8-byte aligned. *)
EXTENDS ContextSwitch

CONSTANTS t1, t2

StackAddr == (Idle :> 1) @@ (t1 :> 21) @@ (t2 :> 42)
StackSize == [t \in Tasks |-> 20]

\* The idle loop computes nothing.
Values == (Idle :> {}) @@ (t1 :> {1}) @@ (t2 :> {1, 2})
=============================================================================
