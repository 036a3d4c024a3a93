---------------------------- MODULE ContextSwitch ----------------------------
(***************************************************************************)
(* cpu.c init_stack and cpu.s pendsv_handler: where the registers of a task*)
(* are while another one runs.                                             *)
(*                                                                         *)
(* memory holds the stacks of all tasks, word by word; an address is the   *)
(* number of a word, and an even one is 8-byte aligned.  Stacks grow down. *)
(* The handler runs between cpsid and cpsie without interruption; the tick *)
(* may come before and after.  What the kernel code of a task and the tick *)
(* decide is left open here: Choose stands for schedule().                 *)
(***************************************************************************)
EXTENDS Integers, SequencesExt

CONSTANTS Tasks,            \* Idle included
          Idle, NoTask,
          stack_addr,       \* the arguments of create_task for each task,
          stack_size,       \* in words
          Generations       \* per task, the values it gives its registers and data

ASSUME StacksAssumption ==
  /\ Idle \in Tasks /\ NoTask \notin Tasks
  /\ \A t \in Tasks : stack_addr[t] \in Nat \ {0} /\ stack_size[t] \in Nat
  /\ \A t, u \in Tasks : t # u =>
       \/ stack_addr[t] + stack_size[t] <= stack_addr[u]
       \/ stack_addr[u] + stack_size[u] <= stack_addr[t]

VARIABLES created,          \* the tasks whose stack has been initialised
          stack_ptr,        \* TCB field
          memory,
          cpu,              \* the registers but for the stack pointer
          psp,              \* the process stack pointer
          phase,            \* which code the processor executes
          pendsv, curr_task_ptr, highest_prio_task_ptr

vars == <<created, stack_ptr, memory, cpu, psp, phase, pendsv,
          curr_task_ptr, highest_prio_task_ptr>>

\* Exception handlers run on the main stack, and so does main.
Phase == {"main", "task", "handler_entry", "handler_exit"}

-----------------------------------------------------------------------------
(* Words and blocks of words                                               *)

Word(owner, what, gen) == [owner |-> owner, what |-> what, gen |-> gen]

\* The two values of EXC_RETURN: to the process stack, 0xFFFFFFFD, and to main.
EXC_RETURN_PSP == Word(NoTask, "0xFFFFFFFD", 0)
EXC_RETURN_MSP == Word(NoTask, "0xFFFFFFF9", 0)

Addresses == UNION {stack_addr[t]..(stack_addr[t] + stack_size[t] - 1) : t \in Tasks}

Written(m, address, words) ==
  [a \in DOMAIN m |-> IF a \in address..(address + Len(words) - 1)
                        THEN words[a - address + 1] ELSE m[a]]

Block(address, n) == [i \in 1..n |-> memory[address + i - 1]]

-----------------------------------------------------------------------------
(* The processor: exception entry and return                               *)

\* The frame an exception pushes, in ascending order.
FrameRegisters == <<"r0", "r1", "r2", "r3", "r12", "lr", "pc", "xpsr">>

\* What the handler pushes below it; the EXC_RETURN value lies between the two.
SavedRegisters == <<"r4", "r5", "r6", "r7", "r8", "r9", "r10", "r11">>

Registers == Range(FrameRegisters) \cup Range(SavedRegisters)

\* The offset of a register in a block that is laid out in the given order.
Offset(order, r) == (CHOOSE i \in DOMAIN order : order[i] = r) - 1

\* The frame is 8-byte aligned; bit 9 of the xPSR in it says whether a word was
\* left out above it.
Padded(word) == [word EXCEPT !.what = "xpsr, bit 9"]
IsPadded(word) == word.what = "xpsr, bit 9"
Unpadded(word) == [word EXCEPT !.what = "xpsr"]

Frame(pad) ==
  [i \in 1..8 |-> IF i = 8 /\ pad = 1 THEN Padded(cpu["xpsr"]) ELSE cpu[FrameRegisters[i]]]

\* The registers a frame at the address holds; the others are in rest.
Unstacked(address, rest) ==
  [r \in Registers |->
     IF r = "xpsr" THEN Unpadded(memory[address + 7])
     ELSE IF r \in Range(FrameRegisters) THEN memory[address + Offset(FrameRegisters, r)]
     ELSE rest[r]]

\* The stack pointer behind a frame.
BehindFrame(address) ==
  address + 8 + (IF IsPadded(memory[address + 7]) THEN 1 ELSE 0)

\* PendSV is taken: from a task its frame goes to the process stack.
PendSVEntry ==
  /\ phase \in {"main", "task"}
  /\ pendsv
  /\ pendsv' = FALSE
  /\ phase' = "handler_entry"
  /\ IF phase = "main"
     THEN /\ cpu' = [cpu EXCEPT !["lr"] = EXC_RETURN_MSP]
          /\ UNCHANGED <<psp, memory>>
     ELSE LET pad == psp % 2
          IN  /\ psp' = psp - pad - 8
              /\ memory' = Written(memory, psp', Frame(pad))
              /\ cpu' = [cpu EXCEPT !["lr"] = EXC_RETURN_PSP]
  /\ UNCHANGED <<created, stack_ptr, curr_task_ptr, highest_prio_task_ptr>>

\* bx lr.  A PendSV that has been pended again is taken without popping the
\* frame and pushing it again.
ExceptionReturn ==
  /\ phase = "handler_exit"
  /\ IF pendsv
     THEN /\ pendsv' = FALSE
          /\ phase' = "handler_entry"
          /\ UNCHANGED <<cpu, psp>>
     ELSE /\ cpu["lr"] = EXC_RETURN_PSP
          /\ cpu' = Unstacked(psp, cpu)
          /\ psp' = BehindFrame(psp)
          /\ phase' = "task"
          /\ UNCHANGED pendsv
  /\ UNCHANGED <<created, stack_ptr, memory, curr_task_ptr, highest_prio_task_ptr>>

-----------------------------------------------------------------------------
(* init_stack                                                              *)

WrongTop(t) ==
  LET end == stack_addr[t] + stack_size[t] IN end + (end % 2)

\* The end of the stack, rounded down to 8 bytes.
StackTop(t) ==
  LET end == stack_addr[t] + stack_size[t] IN end - (end % 2)

\* The general registers are prefilled with numbers that tell them apart.
InitialRegisters(t) ==
  [r \in Registers |-> IF r = "pc" THEN Word(t, "entry_point", 0)
                       ELSE IF r = "lr" THEN Word(NoTask, "exit_task", 0)
                       ELSE Word(NoTask, r, 0)]

InitialFrame(t) ==
  LET file == InitialRegisters(t)
  IN  [i \in 1..17 |-> IF i <= 8 THEN file[SavedRegisters[i]]
                       ELSE IF i = 9 THEN EXC_RETURN_PSP
                       ELSE file[FrameRegisters[i - 9]]]

init_stack(t) ==
  /\ created' = created \cup {t}
  /\ memory' = Written(memory, StackTop(t) - 17, InitialFrame(t))
  /\ stack_ptr' = [stack_ptr EXCEPT ![t] = StackTop(t) - 17]

\* By main, and by the tasks.
CreateTask(t) ==
  /\ t \notin created /\ t # Idle
  /\ phase = "task" \/ (phase = "main" /\ curr_task_ptr = NoTask)
  /\ init_stack(t)
  /\ UNCHANGED <<cpu, psp, phase, pendsv, curr_task_ptr, highest_prio_task_ptr>>

\* init_platform clears PSP, the idle task becomes current without running, and
\* schedule() pends the first switch.
start_thinkernel ==
  /\ phase = "main" /\ curr_task_ptr = NoTask
  /\ psp' = 0
  /\ init_stack(Idle)
  /\ curr_task_ptr' = Idle
  /\ \E t \in created : highest_prio_task_ptr' = t
  /\ pendsv' = TRUE
  /\ UNCHANGED <<cpu, phase>>

\* schedule(), in a task or in the tick handler, which may interrupt the PendSV
\* handler before cpsid and after cpsie.  The pointer is stored before the
\* switch is pended, and it may not get to that.
Choose(t) ==
  /\ phase # "main"
  /\ t \in created
  /\ highest_prio_task_ptr' = t
  /\ pendsv' \in {pendsv, TRUE}
  /\ UNCHANGED <<created, stack_ptr, memory, cpu, psp, phase, curr_task_ptr>>

-----------------------------------------------------------------------------
(* pendsv_handler, from cpsid to cpsie                                     *)

SavedFrame ==
  [i \in 1..9 |-> IF i = 9 THEN cpu["lr"] ELSE cpu[SavedRegisters[i]]]

\* PSP is 0 until the first switch: there is no context to save.
HasContext == psp # 0

WrongLoadOffset(r) == (Offset(SavedRegisters, r) + 4) % 8

\* Where the handler loads a saved register from: r8..r11 at 0x10 first, and
\* r4..r7 last, at the stack pointer itself.
LoadOffset(r) == Offset(SavedRegisters, r)

pendsv_handler ==
  /\ phase = "handler_entry"
  /\ phase' = "handler_exit"
  /\ memory' = IF HasContext THEN Written(memory, psp - 9, SavedFrame) ELSE memory
  /\ stack_ptr' = IF HasContext THEN [stack_ptr EXCEPT ![curr_task_ptr] = psp - 9]
                                ELSE stack_ptr
  /\ curr_task_ptr' = highest_prio_task_ptr
  /\ LET sp == stack_ptr'[curr_task_ptr']
     IN  /\ cpu' = [r \in Registers |->
                      IF r = "lr" THEN memory'[sp + 8]
                      ELSE IF r \in Range(SavedRegisters) THEN memory'[sp + LoadOffset(r)]
                      ELSE cpu[r]]
         /\ psp' = sp + 9
  /\ UNCHANGED <<created, pendsv, highest_prio_task_ptr>>

-----------------------------------------------------------------------------
(* The tasks                                                               *)

Running(t) == phase = "task" /\ curr_task_ptr = t

\* All registers change at once, each to a value that belongs to no other.
Computed(t, gen) ==
  [r \in Registers |-> Word(t, r, gen)]

Compute(t) ==
  /\ Running(t)
  /\ \E gen \in Generations[t] : cpu' = Computed(t, gen)
  /\ UNCHANGED <<created, stack_ptr, memory, psp, phase, pendsv,
                 curr_task_ptr, highest_prio_task_ptr>>

\* What a task has to leave free below its stack pointer: two frames and the
\* word that aligns them.  Nothing in the kernel checks that it does.
CONTEXT_WORDS == 18

Push(t) ==
  /\ Running(t)
  /\ psp - 1 >= stack_addr[t] + CONTEXT_WORDS
  /\ psp' = psp - 1
  /\ \E gen \in Generations[t] : memory' = Written(memory, psp', <<Word(t, "data", gen)>>)
  /\ UNCHANGED <<created, stack_ptr, cpu, phase, pendsv,
                 curr_task_ptr, highest_prio_task_ptr>>

Pop(t) ==
  /\ Running(t)
  /\ psp < StackTop(t)
  /\ psp' = psp + 1
  /\ UNCHANGED <<created, stack_ptr, memory, cpu, phase, pendsv,
                 curr_task_ptr, highest_prio_task_ptr>>

-----------------------------------------------------------------------------
Unused == Word(NoTask, "unused", 0)

Init ==
  /\ created = {}
  /\ stack_ptr = [t \in Tasks |-> 0]
  /\ memory = [a \in Addresses |-> Unused]
  /\ cpu = [r \in Registers |-> Unused]
  /\ psp = 0
  /\ phase = "main"
  /\ pendsv = FALSE
  /\ curr_task_ptr = NoTask
  /\ highest_prio_task_ptr = NoTask

Next ==
  \/ \E t \in Tasks : CreateTask(t) \/ Choose(t) \/ Compute(t) \/ Push(t) \/ Pop(t)
  \/ start_thinkernel
  \/ PendSVEntry
  \/ pendsv_handler
  \/ ExceptionReturn

Spec == Init /\ [][Next]_vars

-----------------------------------------------------------------------------
(* Where the context of a task is                                          *)

Live(t) == curr_task_ptr = t /\ phase # "main" /\ psp # 0

\* The registers the handler saved, and the ones in the frame above them.
Suspended(t) ==
  Unstacked(stack_ptr[t] + 9,
            [r \in Registers |->
               IF r \in Range(SavedRegisters)
                 THEN memory[stack_ptr[t] + Offset(SavedRegisters, r)] ELSE Unused])

RegistersOf(t) ==
  IF t \notin created THEN InitialRegisters(t)
  ELSE IF Running(t) THEN cpu
  ELSE IF Live(t) THEN Unstacked(psp, cpu)
  ELSE Suspended(t)

StackPointerOf(t) ==
  IF Running(t) THEN psp
  ELSE IF Live(t) THEN BehindFrame(psp)
  ELSE BehindFrame(stack_ptr[t] + 9)

StackOf(t) ==
  IF t \notin created THEN <<>>
  ELSE Block(StackPointerOf(t), StackTop(t) - StackPointerOf(t))

\* Each task has a processor and a stack of its own: a switch leads to where
\* the task was, with every register and every word of its stack as it left
\* them, whatever the other tasks have done meanwhile.
Contexts == INSTANCE TaskContexts
  WITH current <- IF psp = 0 THEN NoTask ELSE curr_task_ptr,
       registers <- [t \in Tasks |-> RegistersOf(t)],
       stack <- [t \in Tasks |-> StackOf(t)],
       Start <- [t \in Tasks |-> InitialRegisters(t)],
       Computes <- [t \in Tasks |-> {Computed(t, gen) : gen \in Generations[t]}],
       Pushes <- [t \in Tasks |-> {Word(t, "data", gen) : gen \in Generations[t]}]

ContextSpec == Contexts!Spec

\* What the kernel saves of a task lies in the task's own stack: from the saved
\* registers up to the top.
SavesInOwnStack ==
  \A t \in created :
    /\ ~Live(t) =>
         /\ stack_addr[t] <= stack_ptr[t]
         /\ stack_ptr[t] + 17 <= stack_addr[t] + stack_size[t]
    /\ Live(t) => stack_addr[t] + 9 <= psp /\ psp <= stack_addr[t] + stack_size[t]
=============================================================================
