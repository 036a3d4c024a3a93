---------------------------- MODULE TaskContexts -----------------------------
(***************************************************************************)
(* What the context switch promises the tasks: each runs as if it had a    *)
(* processor and a stack of its own, which stands still while it is not    *)
(* the current task.                                                       *)
(***************************************************************************)
EXTENDS Sequences

CONSTANTS Tasks, NoTask,
          Start,            \* the registers each task is created with
          Computes,         \* the register files a task can come to
          Pushes            \* the words a task can put on its stack

VARIABLES created,          \* the tasks that have a context
          current,          \* the one that runs
          registers, stack  \* the context of each task; its stack from the top

vars == <<created, current, registers, stack>>

Init ==
  /\ created = {}
  /\ current = NoTask
  /\ registers = Start
  /\ stack = [t \in Tasks |-> <<>>]

Create(t) ==
  /\ t \notin created
  /\ created' = created \cup {t}
  /\ UNCHANGED <<current, registers, stack>>

\* The task a switch leads to goes on where it was.
Switch(t) ==
  /\ t \in created
  /\ current' = t
  /\ UNCHANGED <<created, registers, stack>>

Compute(t) ==
  /\ current = t
  /\ \E file \in Computes[t] : registers' = [registers EXCEPT ![t] = file]
  /\ UNCHANGED <<created, current, stack>>

Push(t) ==
  /\ current = t
  /\ \E word \in Pushes[t] : stack' = [stack EXCEPT ![t] = <<word>> \o @]
  /\ UNCHANGED <<created, current, registers>>

Pop(t) ==
  /\ current = t
  /\ stack[t] # <<>>
  /\ stack' = [stack EXCEPT ![t] = Tail(@)]
  /\ UNCHANGED <<created, current, registers>>

Next ==
  \E t \in Tasks : Create(t) \/ Switch(t) \/ Compute(t) \/ Push(t) \/ Pop(t)

Spec == Init /\ [][Next]_vars
=============================================================================
