--------------------------- MODULE ContextProofs ---------------------------
(***************************************************************************)
(* The context switch for any number of tasks, with stacks of any size of  *)
(* at least the two frames and anywhere in memory: what is saved of a task *)
(* lies in its own stack, and each task is as if it had a processor of its *)
(* own.                                                                    *)
(***************************************************************************)
EXTENDS ContextSwitch, SequenceTheorems, TLAPS

\* Room for the initial frame, which is what a first switch needs.
StacksLargeEnough == \A t \in Tasks : stack_size[t] >= CONTEXT_WORDS

Whats == Registers \cup {"entry_point", "exit_task", "unused", "data", "xpsr, bit 9",
                         "0xFFFFFFFD", "0xFFFFFFF9"}
Gens == {0} \cup UNION {Generations[t] : t \in Tasks}
Words == [owner : Tasks \cup {NoTask}, what : Whats, gen : Gens]

StackWords(t) == stack_addr[t]..(stack_addr[t] + stack_size[t] - 1)

TypeInv ==
  /\ created \subseteq Tasks
  /\ stack_ptr \in [Tasks -> Int]
  /\ memory \in [Addresses -> Words]
  /\ cpu \in [Registers -> Words]
  /\ psp \in Int
  /\ phase \in Phase
  /\ curr_task_ptr \in Tasks \cup {NoTask}

\* A frame of t, with room below it for the registers the handler saves.
FrameFits(t, a) ==
  /\ a % 2 = 0
  /\ stack_addr[t] + 9 <= a
  /\ BehindFrame(a) <= StackTop(t)

(***************************************************************************)
(* SavesInOwnStack bounds the places of the frames.  That the frame of the *)
(* next switch fits needs more: what a task has below its stack pointer    *)
(* when it runs follows from where its last frame was, and this from the   *)
(* padding bit the entry has stored in it.                                 *)
(***************************************************************************)
ContextInv ==
  /\ \A t \in created : ~Live(t) => FrameFits(t, stack_ptr[t] + 9)
  /\ curr_task_ptr = NoTask => phase = "main" /\ Idle \notin created /\ ~pendsv
  /\ curr_task_ptr # NoTask => highest_prio_task_ptr \in created
  /\ phase = "main" => psp = 0
  /\ phase \in {"task", "handler_exit"} => psp # 0
  /\ psp # 0 => curr_task_ptr \in created
  /\ phase = "task" => /\ stack_addr[curr_task_ptr] + 17 <= psp - (psp % 2)
                       /\ psp <= StackTop(curr_task_ptr)
                       /\ cpu["xpsr"].what = "xpsr"
  /\ phase \in {"handler_entry", "handler_exit"} /\ psp # 0 => FrameFits(curr_task_ptr, psp)

-----------------------------------------------------------------------------
(* Addresses and registers                                                 *)

LEMMA StackBounds ==
  ASSUME NEW t \in Tasks
  PROVE  /\ stack_addr[t] \in Nat \ {0} /\ stack_size[t] \in Nat
         /\ StackTop(t) \in Int /\ StackTop(t) % 2 = 0
         /\ StackTop(t) <= stack_addr[t] + stack_size[t]
         /\ stack_addr[t] + stack_size[t] - 1 <= StackTop(t)
         /\ StackWords(t) \subseteq Addresses
         /\ \A a \in StackWords(t) : a \in Int /\ a >= stack_addr[t]
         /\ t # NoTask
<1>1. stack_addr[t] \in Nat \ {0} /\ stack_size[t] \in Nat /\ t # NoTask
  BY StacksAssumption
<1>2. StackWords(t) \subseteq Addresses
  BY DEF StackWords, Addresses
<1> QED
  BY <1>1, <1>2 DEF StackTop, StackWords

\* The stack of one task is not the stack of another.
LEMMA StacksApart ==
  ASSUME NEW t \in Tasks, NEW u \in Tasks, t # u, NEW a \in StackWords(t)
  PROVE  a \notin StackWords(u)
<1>1. /\ stack_addr[t] \in Nat /\ stack_size[t] \in Nat
      /\ stack_addr[u] \in Nat /\ stack_size[u] \in Nat
      /\ \/ stack_addr[t] + stack_size[t] <= stack_addr[u]
         \/ stack_addr[u] + stack_size[u] <= stack_addr[t]
  BY StacksAssumption
<1> QED
  BY <1>1 DEF StackWords

LEMMA WrittenWords ==
  ASSUME NEW m \in [Addresses -> Words], NEW a \in Int, NEW n \in Nat,
         NEW w \in [1..n -> Words]
  PROVE  /\ Written(m, a, w) \in [Addresses -> Words]
         /\ \A b \in Addresses :
              Written(m, a, w)[b] = IF a <= b /\ b < a + n THEN w[b - a + 1] ELSE m[b]
<1>1. Len(w) = n
  OBVIOUS
<1>2. Addresses \subseteq Int
  BY StacksAssumption DEF Addresses
<1>3. \A b \in Addresses : Written(m, a, w)[b] = IF a <= b /\ b < a + n THEN w[b - a + 1] ELSE m[b]
  BY <1>1, <1>2 DEF Written
<1>4. \A b \in Addresses : a <= b /\ b < a + n => b - a + 1 \in 1..n
  BY <1>2
<1>5. DOMAIN Written(m, a, w) = Addresses
  BY DEF Written
<1>6. \A b \in Addresses : Written(m, a, w)[b] \in Words
  BY <1>3, <1>4
<1> QED
  BY <1>3, <1>5, <1>6 DEF Written

LEMMA RegisterNames ==
  /\ DOMAIN FrameRegisters = 1..8 /\ DOMAIN SavedRegisters = 1..8
  /\ FrameRegisters[8] = "xpsr"
  /\ \A i \in 1..8 : FrameRegisters[i] \in Registers /\ SavedRegisters[i] \in Registers
  /\ \A i \in 1..8 : FrameRegisters[i] \in Range(FrameRegisters)
                  /\ SavedRegisters[i] \in Range(SavedRegisters)
  /\ \A i, j \in 1..8 : FrameRegisters[i] # SavedRegisters[j]
  /\ \A i, j \in 1..8 : FrameRegisters[i] = FrameRegisters[j] => i = j
  /\ \A i, j \in 1..8 : SavedRegisters[i] = SavedRegisters[j] => i = j
  /\ \A r \in Registers : r \in Range(FrameRegisters) \/ r \in Range(SavedRegisters)
<1>1. /\ DOMAIN FrameRegisters = 1..8 /\ DOMAIN SavedRegisters = 1..8
      /\ FrameRegisters[8] = "xpsr"
  BY DEF FrameRegisters, SavedRegisters
<1>2. \A i, j \in 1..8 : FrameRegisters[i] # SavedRegisters[j]
  BY DEF FrameRegisters, SavedRegisters
<1>3. \A i, j \in 1..8 : FrameRegisters[i] = FrameRegisters[j] => i = j
  BY DEF FrameRegisters
<1>4. \A i, j \in 1..8 : SavedRegisters[i] = SavedRegisters[j] => i = j
  BY DEF SavedRegisters
<1> QED
  BY <1>1, <1>2, <1>3, <1>4 DEF Registers, Range

LEMMA GenWords ==
  /\ 0 \in Gens
  /\ \A t \in Tasks : \A gen \in Generations[t] : gen \in Gens
BY DEF Gens

LEMMA FrameOffset ==
  ASSUME NEW r \in Range(FrameRegisters)
  PROVE  Offset(FrameRegisters, r) \in 0..7 /\ FrameRegisters[Offset(FrameRegisters, r) + 1] = r
<1> DEFINE i == CHOOSE j \in DOMAIN FrameRegisters : FrameRegisters[j] = r
<1>1. \E j \in DOMAIN FrameRegisters : FrameRegisters[j] = r
  BY DEF Range
<1>2. i \in DOMAIN FrameRegisters /\ FrameRegisters[i] = r
  BY <1>1
<1>3. Offset(FrameRegisters, r) = i - 1
  BY DEF Offset
<1> HIDE DEF i
<1> QED
  BY <1>2, <1>3, RegisterNames

LEMMA SavedOffset ==
  ASSUME NEW r \in Range(SavedRegisters)
  PROVE  Offset(SavedRegisters, r) \in 0..7 /\ SavedRegisters[Offset(SavedRegisters, r) + 1] = r
<1> DEFINE i == CHOOSE j \in DOMAIN SavedRegisters : SavedRegisters[j] = r
<1>1. \E j \in DOMAIN SavedRegisters : SavedRegisters[j] = r
  BY DEF Range
<1>2. i \in DOMAIN SavedRegisters /\ SavedRegisters[i] = r
  BY <1>1
<1>3. Offset(SavedRegisters, r) = i - 1
  BY DEF Offset
<1> HIDE DEF i
<1> QED
  BY <1>2, <1>3, RegisterNames

-----------------------------------------------------------------------------
(* The frames                                                              *)

LEMMA PaddedWord ==
  ASSUME NEW w \in Words
  PROVE  /\ Padded(w) \in Words /\ IsPadded(Padded(w))
         /\ Unpadded(w) \in Words /\ Unpadded(w).what = "xpsr"
         /\ w.what = "xpsr" => ~IsPadded(w) /\ Unpadded(w) = w /\ Unpadded(Padded(w)) = w
<1>1. "xpsr" \in Whats /\ "xpsr, bit 9" \in Whats
  BY RegisterNames DEF Whats
<1> QED
  BY <1>1 DEF Padded, Unpadded, IsPadded, Words

LEMMA FrameWords ==
  ASSUME TypeInv, NEW pad \in {0, 1}
  PROVE  /\ Frame(pad) \in [1..8 -> Words]
         /\ \A i \in 1..7 : Frame(pad)[i] = cpu[FrameRegisters[i]]
         /\ Frame(pad)[8] = IF pad = 1 THEN Padded(cpu["xpsr"]) ELSE cpu["xpsr"]
<1>1. \A i \in 1..8 : cpu[FrameRegisters[i]] \in Words
  BY RegisterNames DEF TypeInv
<1>2. Padded(cpu["xpsr"]) \in Words
  BY <1>1, RegisterNames, PaddedWord
<1> QED
  BY <1>1, <1>2, RegisterNames DEF Frame

LEMMA InitialWords ==
  ASSUME NEW t \in Tasks
  PROVE  /\ InitialRegisters(t) \in [Registers -> Words]
         /\ InitialRegisters(t)["xpsr"].what = "xpsr"
         /\ InitialFrame(t) \in [1..17 -> Words]
         /\ \A i \in 1..8 : InitialFrame(t)[i] = InitialRegisters(t)[SavedRegisters[i]]
         /\ \A i \in 1..8 : InitialFrame(t)[i + 9] = InitialRegisters(t)[FrameRegisters[i]]
<1>1. InitialRegisters(t) \in [Registers -> Words]
  BY GenWords DEF InitialRegisters, Word, Words, Whats
<1>2. InitialRegisters(t)["xpsr"].what = "xpsr"
  BY RegisterNames DEF InitialRegisters, Word
<1>3. EXC_RETURN_PSP \in Words
  BY GenWords DEF EXC_RETURN_PSP, Word, Words, Whats
<1>4. \A i \in 10..17 : FrameRegisters[i - 9] \in Registers
  BY RegisterNames
<1>5. InitialFrame(t) \in [1..17 -> Words]
  BY <1>1, <1>3, <1>4, RegisterNames DEF InitialFrame
<1>6. \A i \in 1..8 : InitialFrame(t)[i] = InitialRegisters(t)[SavedRegisters[i]]
  BY DEF InitialFrame
<1>7. ASSUME NEW i \in 1..8 PROVE InitialFrame(t)[i + 9] = InitialRegisters(t)[FrameRegisters[i]]
  <2>1. i + 9 \in 1..17 /\ ~(i + 9 <= 8) /\ i + 9 # 9 /\ (i + 9) - 9 = i
    OBVIOUS
  <2> QED
    BY <2>1 DEF InitialFrame
<1> QED
  BY <1>1, <1>2, <1>5, <1>6, <1>7

\* A frame that fits, and what the handler puts below it, are in the stack.
LEMMA PlaceInStack ==
  ASSUME NEW t \in Tasks, NEW a \in Int, NEW b \in {a + 8, a + 9},
         stack_addr[t] + 9 <= a, b <= StackTop(t)
  PROVE  /\ \A i \in -9..7 : a + i \in StackWords(t) /\ a + i \in Addresses
         /\ a # 0
<1>1. /\ stack_addr[t] \in Nat \ {0} /\ stack_size[t] \in Nat
      /\ stack_addr[t] + 9 <= a /\ a + 8 <= stack_addr[t] + stack_size[t]
  BY StackBounds
<1>2. \A i \in -9..7 : a + i \in StackWords(t)
  BY <1>1 DEF StackWords
<1> QED
  BY <1>1, <1>2, StackBounds

LEMMA FrameInStack ==
  ASSUME TypeInv, NEW t \in Tasks, NEW a \in Int, FrameFits(t, a)
  PROVE  /\ \A i \in -9..7 : a + i \in StackWords(t) /\ a + i \in Addresses
         /\ a # 0
         /\ BehindFrame(a) \in {a + 8, a + 9}
<1>1. BehindFrame(a) \in {a + 8, a + 9}
  BY DEF BehindFrame
<1>2. stack_addr[t] + 9 <= a /\ BehindFrame(a) <= StackTop(t)
  BY DEF FrameFits
<1> QED
  BY <1>1, <1>2, PlaceInStack

\* What happens in another stack leaves a frame alone.
LEMMA FrameKept ==
  ASSUME TypeInv, NEW t \in Tasks, NEW a \in Int, FrameFits(t, a),
         \A b \in StackWords(t) : memory'[b] = memory[b]
  PROVE  FrameFits(t, a)'
<1>1. a + 7 \in StackWords(t)
  BY FrameInStack
<1> QED
  BY <1>1 DEF FrameFits, BehindFrame

LEMMA InitStackFits ==
  ASSUME StacksLargeEnough, TypeInv, NEW t \in Tasks, init_stack(t)
  PROVE  /\ created' \subseteq Tasks /\ created' = created \cup {t}
         /\ stack_ptr' \in [Tasks -> Int] /\ memory' \in [Addresses -> Words]
         /\ stack_ptr'[t] = StackTop(t) - 17
         /\ \A u \in Tasks : u # t => stack_ptr'[u] = stack_ptr[u]
         /\ FrameFits(t, stack_ptr[t] + 9)'
         /\ BehindFrame(stack_ptr[t] + 9)' = StackTop(t)
         /\ \A i \in 1..17 : memory'[StackTop(t) - 18 + i] = InitialFrame(t)[i]
         /\ \A u \in Tasks : u # t => \A b \in StackWords(u) : memory'[b] = memory[b]
<1> PICK top \in Int : top = StackTop(t)
  BY StackBounds
<1> PICK frame \in [1..17 -> Words] : frame = InitialFrame(t)
  BY InitialWords
<1>1. /\ created' = created \cup {t}
      /\ memory' = Written(memory, top - 17, frame)
      /\ stack_ptr' = [stack_ptr EXCEPT ![t] = top - 17]
  BY DEF init_stack
<1>2. /\ top \in Int /\ top % 2 = 0 /\ top >= stack_addr[t] + 17
      /\ top <= stack_addr[t] + stack_size[t]
      /\ stack_addr[t] \in Nat /\ stack_size[t] \in Nat
  BY StackBounds DEF StacksLargeEnough, CONTEXT_WORDS
<1>3. frame \in [1..17 -> Words] /\ frame[17].what = "xpsr"
  BY InitialWords, RegisterNames
<1>4. /\ memory' \in [Addresses -> Words]
      /\ \A b \in Addresses :
           memory'[b] = IF top - 17 <= b /\ b < top - 17 + 17 THEN frame[b - (top - 17) + 1]
                                                              ELSE memory[b]
  <2>1. top - 17 \in Int /\ 17 \in Nat /\ memory \in [Addresses -> Words]
    BY DEF TypeInv
  <2>2. /\ Written(memory, top - 17, frame) \in [Addresses -> Words]
        /\ \A b \in Addresses :
             Written(memory, top - 17, frame)[b] =
               IF top - 17 <= b /\ b < top - 17 + 17 THEN frame[b - (top - 17) + 1] ELSE memory[b]
    BY <2>1, WrittenWords, ZenonT(30)
  <2> QED
    BY <1>1, <2>2
<1>5. ASSUME NEW i \in 1..17 PROVE memory'[top - 18 + i] = frame[i]
  <2>1. top - 18 + i \in StackWords(t)
    BY <1>2 DEF StackWords
  <2>2. top - 18 + i \in Addresses
    BY <2>1, StackBounds
  <2>3. top - 17 <= top - 18 + i /\ top - 18 + i < top - 17 + 17
        /\ (top - 18 + i) - (top - 17) + 1 = i
    BY <1>2
  <2> QED
    BY <1>4, <2>2, <2>3
<1>6. ASSUME NEW u \in Tasks, u # t, NEW b \in StackWords(u) PROVE memory'[b] = memory[b]
  <2>1. b \in Addresses /\ b \in Int /\ b \notin StackWords(t)
    BY <1>6, StackBounds, StacksApart
  <2>2. ~(top - 17 <= b /\ b < top - 17 + 17)
    BY <1>2, <2>1 DEF StackWords
  <2> QED
    BY <1>4, <2>1, <2>2
<1>7. stack_ptr'[t] + 9 = top - 8 /\ stack_ptr'[t] = top - 17
  BY <1>1, <1>2 DEF TypeInv
<1>8. memory'[stack_ptr'[t] + 9 + 7] = frame[17]
  BY <1>2, <1>5, <1>7
<1>9. BehindFrame(stack_ptr[t] + 9)' = top
  <2>1. memory'[stack_ptr'[t] + 9 + 7].what # "xpsr, bit 9"
    BY <1>3, <1>8
  <2>2. BehindFrame(stack_ptr[t] + 9)' = stack_ptr'[t] + 9 + 8 + 0
    BY <2>1 DEF BehindFrame, IsPadded
  <2> QED
    BY <1>7, <2>2
<1>10. (top - 8) % 2 = 0
  BY <1>2
<1>11. FrameFits(t, stack_ptr[t] + 9)'
  BY <1>2, <1>7, <1>9, <1>10 DEF FrameFits
<1> QED
  BY <1>1, <1>2, <1>4, <1>5, <1>6, <1>7, <1>9, <1>11 DEF TypeInv

\* An exception that interrupts a task.
LEMMA EntryFits ==
  ASSUME TypeInv, ContextInv, PendSVEntry, phase = "task", NEW c \in Tasks, c = curr_task_ptr
  PROVE  /\ c \in created /\ psp' \in Int /\ psp' # 0
         /\ memory' \in [Addresses -> Words]
         /\ FrameFits(c, psp)' /\ BehindFrame(psp)' = psp
         /\ \A i \in 0..6 : memory'[psp' + i] = cpu[FrameRegisters[i + 1]]
         /\ Unpadded(memory'[psp' + 7]) = cpu["xpsr"]
         /\ \A b \in Addresses : b >= psp => memory'[b] = memory[b]
         /\ \A u \in Tasks : u # c => \A b \in StackWords(u) : memory'[b] = memory[b]
<1>1. /\ c \in created /\ c \in Tasks /\ psp \in Int
      /\ stack_addr[c] + 17 <= psp - (psp % 2) /\ psp <= StackTop(c)
      /\ cpu["xpsr"].what = "xpsr" /\ cpu["xpsr"] \in Words
  BY RegisterNames DEF TypeInv, ContextInv
<1> PICK pad \in {0, 1} : pad = psp % 2
  BY <1>1
<1>2. psp' = psp - pad - 8 /\ memory' = Written(memory, psp', Frame(pad))
  BY DEF PendSVEntry
<1> PICK a \in Int : a = psp - pad - 8
  BY <1>1
<1>3. psp' = a /\ memory' = Written(memory, a, Frame(pad)) /\ psp = a + 8 + pad
  BY <1>1, <1>2
<1>4. /\ stack_addr[c] \in Nat /\ stack_addr[c] + 9 <= a /\ a % 2 = 0
      /\ a + 8 + pad <= StackTop(c) /\ StackTop(c) \in Int
      /\ StackTop(c) <= stack_addr[c] + stack_size[c] /\ stack_size[c] \in Nat
  BY <1>1, <1>3, StackBounds
<1> PICK frame \in [1..8 -> Words] :
      /\ frame = Frame(pad)
      /\ \A i \in 1..7 : frame[i] = cpu[FrameRegisters[i]]
      /\ frame[8] = IF pad = 1 THEN Padded(cpu["xpsr"]) ELSE cpu["xpsr"]
  BY FrameWords
<1>5. /\ memory' \in [Addresses -> Words]
      /\ \A b \in Addresses :
           memory'[b] = IF a <= b /\ b < a + 8 THEN frame[b - a + 1] ELSE memory[b]
  <2>1. memory \in [Addresses -> Words] /\ 8 \in Nat
    BY DEF TypeInv
  <2>2. /\ Written(memory, a, frame) \in [Addresses -> Words]
        /\ \A b \in Addresses :
             Written(memory, a, frame)[b] = IF a <= b /\ b < a + 8 THEN frame[b - a + 1] ELSE memory[b]
    BY <2>1, WrittenWords, ZenonT(30)
  <2> QED
    BY <1>3, <2>2
<1>6. ASSUME NEW i \in 0..7 PROVE memory'[a + i] = frame[i + 1]
  <2>1. a + i \in StackWords(c)
    BY <1>4 DEF StackWords
  <2>2. a + i \in Addresses
    BY <1>1, <2>1, StackBounds
  <2>3. a <= a + i /\ a + i < a + 8 /\ (a + i) - a + 1 = i + 1
    OBVIOUS
  <2> QED
    BY <1>5, <2>2, <2>3
<1>7. memory'[a + 7] = frame[8]
  BY <1>6
<1>8. Unpadded(memory'[a + 7]) = cpu["xpsr"] /\ (IsPadded(memory'[a + 7]) <=> pad = 1)
  <2> PICK w \in Words : w = cpu["xpsr"]
    BY <1>1
  <2>1. /\ IsPadded(Padded(w)) /\ ~IsPadded(w) /\ Unpadded(w) = w
        /\ Unpadded(Padded(w)) = w
    BY <1>1, PaddedWord
  <2>2. memory'[a + 7] = IF pad = 1 THEN Padded(w) ELSE w
    BY <1>7
  <2>3. CASE pad = 1
    BY <2>1, <2>2, <2>3
  <2>4. CASE pad # 1
    BY <2>1, <2>2, <2>4
  <2> QED
    BY <2>3, <2>4
<1>9. BehindFrame(psp)' = psp
  BY <1>3, <1>8 DEF BehindFrame, IsPadded
<1>10. FrameFits(c, a)'
  <2>1. BehindFrame(a)' = psp
    BY <1>3, <1>8 DEF BehindFrame, IsPadded
  <2> QED
    BY <1>1, <1>4, <2>1 DEF FrameFits
<1>12. \A i \in 0..6 : memory'[psp' + i] = cpu[FrameRegisters[i + 1]]
  BY <1>3, <1>6
<1>13. \A b \in Addresses : b >= psp => memory'[b] = memory[b]
  <2>1. Addresses \subseteq Int
    BY StacksAssumption DEF Addresses
  <2> QED
    BY <1>3, <1>5, <2>1
<1>14. ASSUME NEW u \in Tasks, u # c, NEW b \in StackWords(u) PROVE memory'[b] = memory[b]
  <2>1. b \in Addresses /\ b \in Int /\ b \notin StackWords(c)
    BY <1>1, <1>14, StackBounds, StacksApart
  <2>2. ~(a <= b /\ b < a + 8)
    BY <1>4, <2>1 DEF StackWords
  <2> QED
    BY <1>5, <2>1, <2>2
<1>15. psp' \in Int /\ psp' # 0
  <2>1. stack_addr[c] \in Nat /\ stack_addr[c] + 9 <= a
    BY <1>4
  <2>2. a # 0
    BY <2>1
  <2> QED
    BY <1>3, <2>2
<1>16. FrameFits(c, psp)'
  BY <1>3, <1>10 DEF FrameFits, BehindFrame
<1> QED
  BY <1>1, <1>3, <1>5, <1>8, <1>9, <1>12, <1>13, <1>14, <1>15, <1>16

\* What the handler saves of a task that was interrupted.
LEMMA HandlerSaves ==
  ASSUME TypeInv, ContextInv, pendsv_handler, psp # 0, NEW c \in Tasks, c = curr_task_ptr
  PROVE  /\ c \in created /\ FrameFits(c, psp)
         /\ memory' \in [Addresses -> Words] /\ stack_ptr' \in [Tasks -> Int]
         /\ stack_ptr'[c] = psp - 9
         /\ \A u \in Tasks : u # c => stack_ptr'[u] = stack_ptr[u]
         /\ FrameFits(c, stack_ptr[c] + 9)'
         /\ \A i \in 0..7 : memory'[psp - 9 + i] = cpu[SavedRegisters[i + 1]]
         /\ \A b \in Addresses : b >= psp => memory'[b] = memory[b]
         /\ \A u \in Tasks : u # c => \A b \in StackWords(u) : memory'[b] = memory[b]
<1>1. /\ c \in created /\ c \in Tasks /\ psp \in Int /\ FrameFits(c, psp)
  BY DEF TypeInv, ContextInv, pendsv_handler
<1>2. memory' = Written(memory, psp - 9, SavedFrame) /\ stack_ptr' = [stack_ptr EXCEPT ![c] = psp - 9]
  BY DEF pendsv_handler, HasContext
<1> PICK a \in Int : a = psp - 9
  BY <1>1
<1>3. SavedFrame \in [1..9 -> Words] /\ \A i \in 1..8 : SavedFrame[i] = cpu[SavedRegisters[i]]
  <2>1. \A i \in 1..8 : cpu[SavedRegisters[i]] \in Words
    BY RegisterNames DEF TypeInv
  <2>2. cpu["lr"] \in Words
    <3>1. "lr" \in Registers
      BY DEF Registers, FrameRegisters, Range
    <3> QED
      BY <3>1 DEF TypeInv
  <2> QED
    BY <2>1, <2>2 DEF SavedFrame
<1> PICK frame \in [1..9 -> Words] :
      frame = SavedFrame /\ \A i \in 1..8 : frame[i] = cpu[SavedRegisters[i]]
  BY <1>3
<1>4. /\ memory' \in [Addresses -> Words]
      /\ \A b \in Addresses :
           memory'[b] = IF a <= b /\ b < a + 9 THEN frame[b - a + 1] ELSE memory[b]
  <2>1. memory \in [Addresses -> Words] /\ 9 \in Nat
    BY DEF TypeInv
  <2>2. /\ Written(memory, a, frame) \in [Addresses -> Words]
        /\ \A b \in Addresses :
             Written(memory, a, frame)[b] = IF a <= b /\ b < a + 9 THEN frame[b - a + 1] ELSE memory[b]
    BY <2>1, WrittenWords, ZenonT(30)
  <2> QED
    BY <1>2, <2>2
<1>5. \A i \in 0..8 : a + i \in StackWords(c) /\ a + i \in Addresses
  <2>1. \A i \in -9..7 : psp + i \in StackWords(c) /\ psp + i \in Addresses
    BY <1>1, FrameInStack
  <2>2. ASSUME NEW i \in 0..8 PROVE a + i = psp + (i - 9) /\ i - 9 \in -9..7
    BY <1>1
  <2> QED
    BY <2>1, <2>2
<1>6. ASSUME NEW i \in 0..7 PROVE memory'[a + i] = cpu[SavedRegisters[i + 1]]
  <2>1. a + i \in Addresses /\ a <= a + i /\ a + i < a + 9 /\ (a + i) - a + 1 = i + 1
    BY <1>5
  <2>2. memory'[a + i] = frame[i + 1] /\ i + 1 \in 1..8
    BY <1>4, <2>1
  <2> QED
    BY <2>2
<1>7. \A b \in Addresses : b >= psp => memory'[b] = memory[b]
  <2>1. Addresses \subseteq Int
    BY StacksAssumption DEF Addresses
  <2> QED
    BY <1>1, <1>4, <2>1
<1>8. ASSUME NEW u \in Tasks, u # c, NEW b \in StackWords(u) PROVE memory'[b] = memory[b]
  <2>1. b \in Addresses /\ b \in Int /\ b \notin StackWords(c)
    BY <1>1, <1>8, StackBounds, StacksApart
  <2>2. ASSUME a <= b, b < a + 9 PROVE FALSE
    <3>1. b - a \in 0..8 /\ a + (b - a) = b
      BY <2>1, <2>2
    <3> QED
      BY <1>5, <2>1, <3>1
  <2> QED
    BY <1>4, <2>1, <2>2
<1>9. /\ stack_ptr' \in [Tasks -> Int] /\ stack_ptr'[c] = psp - 9
      /\ \A u \in Tasks : u # c => stack_ptr'[u] = stack_ptr[u]
  BY <1>1, <1>2 DEF TypeInv
<1>10. FrameFits(c, stack_ptr[c] + 9)'
  <2>1. stack_ptr'[c] + 9 = psp
    BY <1>1, <1>9
  <2>2. memory'[psp + 7] = memory[psp + 7]
    <3>1. psp + 7 \in Addresses
      BY <1>1, FrameInStack
    <3>2. psp + 7 >= psp
      BY <1>1
    <3> QED
      BY <1>7, <3>1, <3>2
  <2> QED
    BY <1>1, <2>1, <2>2 DEF FrameFits, BehindFrame
<1> QED
  BY <1>1, <1>2, <1>4, <1>6, <1>7, <1>8, <1>9, <1>10

\* A frame that nothing is done to.
LEMMA OtherFrameKept ==
  ASSUME TypeInv, ContextInv, NEW u \in created, ~Live(u), stack_ptr'[u] = stack_ptr[u],
         \A b \in StackWords(u) : memory'[b] = memory[b]
  PROVE  FrameFits(u, stack_ptr[u] + 9)'
<1>1. u \in Tasks /\ stack_ptr[u] \in Int
  BY DEF TypeInv
<1> PICK a \in Int : a = stack_ptr[u] + 9
  BY <1>1
<1>2. FrameFits(u, a)
  BY DEF ContextInv
<1>3. FrameFits(u, a)'
  BY <1>1, <1>2, FrameKept
<1>4. stack_ptr'[u] + 9 = a
  OBVIOUS
<1> QED
  BY <1>3, <1>4 DEF FrameFits, BehindFrame

-----------------------------------------------------------------------------
(* The invariant                                                           *)

LEMMA ContextInit ==
  ASSUME Init
  PROVE  TypeInv /\ ContextInv
<1>1. Unused \in Words
  BY GenWords DEF Unused, Word, Words, Whats
<1>2. NoTask \notin Tasks
  BY StacksAssumption
<1> QED
  BY <1>1, <1>2 DEF Init, TypeInv, ContextInv, Phase

LEMMA CreateTaskStep ==
  ASSUME StacksLargeEnough, TypeInv, ContextInv, NEW t \in Tasks, CreateTask(t)
  PROVE  TypeInv' /\ ContextInv'
<1>1. /\ created' = created \cup {t} /\ created' \subseteq Tasks
      /\ stack_ptr' \in [Tasks -> Int] /\ memory' \in [Addresses -> Words]
      /\ FrameFits(t, stack_ptr[t] + 9)'
      /\ \A u \in Tasks : u # t => stack_ptr'[u] = stack_ptr[u]
      /\ \A u \in Tasks : u # t => \A b \in StackWords(u) : memory'[b] = memory[b]
  BY InitStackFits DEF CreateTask
<1>2. /\ t \notin created /\ t # Idle
      /\ UNCHANGED <<cpu, psp, phase, pendsv, curr_task_ptr, highest_prio_task_ptr>>
      /\ phase \notin {"handler_entry", "handler_exit"}
  BY DEF CreateTask
<1>3. TypeInv'
  BY <1>1, <1>2 DEF TypeInv
<1>4. ASSUME NEW u \in created', ~Live(u)' PROVE FrameFits(u, stack_ptr[u] + 9)'
  <2>1. CASE u = t
    BY <1>1, <2>1
  <2>2. CASE u # t
    <3>1. u \in created /\ u \in Tasks /\ ~Live(u)
      BY <1>1, <1>2, <1>4, <2>2 DEF TypeInv, Live
    <3> QED
      BY <1>1, <2>2, <3>1, OtherFrameKept
  <2> QED
    BY <2>1, <2>2
<1>5. ContextInv'
  <2>1. \A u \in created' : ~Live(u)' => FrameFits(u, stack_ptr[u] + 9)'
    BY <1>4
  <2>2. \A u \in created : u \in created'
    BY <1>1
  <2> QED
    BY <1>1, <1>2, <2>1, <2>2 DEF ContextInv, StackTop
<1> QED
  BY <1>3, <1>5

LEMMA StartStep ==
  ASSUME StacksLargeEnough, TypeInv, ContextInv, start_thinkernel
  PROVE  TypeInv' /\ ContextInv'
<1>0. Idle \in Tasks /\ Idle # NoTask
  BY StacksAssumption
<1>1. /\ created' = created \cup {Idle} /\ created' \subseteq Tasks
      /\ stack_ptr' \in [Tasks -> Int] /\ memory' \in [Addresses -> Words]
      /\ FrameFits(Idle, stack_ptr[Idle] + 9)'
      /\ \A u \in Tasks : u # Idle => stack_ptr'[u] = stack_ptr[u]
      /\ \A u \in Tasks : u # Idle => \A b \in StackWords(u) : memory'[b] = memory[b]
  BY <1>0, InitStackFits DEF start_thinkernel
<1>2. /\ phase = "main" /\ psp' = 0 /\ curr_task_ptr' = Idle
      /\ highest_prio_task_ptr' \in created
      /\ UNCHANGED <<cpu, phase>>
  BY DEF start_thinkernel
<1>3. TypeInv'
  BY <1>0, <1>1, <1>2 DEF TypeInv
<1>4. ASSUME NEW u \in created' PROVE FrameFits(u, stack_ptr[u] + 9)'
  <2>1. CASE u = Idle
    BY <1>1, <2>1
  <2>2. CASE u # Idle
    <3>1. u \in created /\ u \in Tasks /\ ~Live(u)
      BY <1>1, <1>2, <2>2 DEF TypeInv, Live
    <3> QED
      BY <1>1, <2>2, <3>1, OtherFrameKept
  <2> QED
    BY <2>1, <2>2
<1>5. ContextInv'
  <2>1. \A u \in created' : ~Live(u)' => FrameFits(u, stack_ptr[u] + 9)'
    BY <1>4
  <2>2. highest_prio_task_ptr' \in created'
    BY <1>1, <1>2
  <2> QED
    BY <1>0, <1>2, <2>1, <2>2 DEF ContextInv
<1> QED
  BY <1>3, <1>5

LEMMA EntryStep ==
  ASSUME TypeInv, ContextInv, PendSVEntry
  PROVE  TypeInv' /\ ContextInv'
<1>1. /\ pendsv /\ phase' = "handler_entry" /\ phase \in {"main", "task"}
      /\ UNCHANGED <<created, stack_ptr, curr_task_ptr, highest_prio_task_ptr>>
  BY DEF PendSVEntry
<1>2. curr_task_ptr # NoTask
  BY <1>1 DEF ContextInv
<1>3. cpu' \in [Registers -> Words]
  <2>1. EXC_RETURN_PSP \in Words /\ EXC_RETURN_MSP \in Words
    BY GenWords DEF EXC_RETURN_PSP, EXC_RETURN_MSP, Word, Words, Whats
  <2> QED
    BY <2>1 DEF PendSVEntry, TypeInv
<1>4. CASE phase = "main"
  <2>1. psp' = psp /\ memory' = memory /\ psp = 0
    BY <1>4 DEF PendSVEntry, ContextInv
  <2>2. TypeInv'
    BY <1>1, <1>3, <2>1 DEF TypeInv, Phase
  <2>3. ASSUME NEW u \in created' PROVE FrameFits(u, stack_ptr[u] + 9)'
    <3>1. u \in created /\ ~Live(u)
      BY <1>1, <1>4 DEF Live
    <3> QED
      BY <1>1, <2>1, <3>1, OtherFrameKept
  <2>4. ContextInv'
    <3>1. \A u \in created' : ~Live(u)' => FrameFits(u, stack_ptr[u] + 9)'
      BY <2>3
    <3> QED
      BY <1>1, <1>2, <2>1, <3>1 DEF ContextInv
  <2> QED
    BY <2>2, <2>4
<1>5. CASE phase = "task"
  <2> PICK c \in Tasks : c = curr_task_ptr
    BY <1>2 DEF TypeInv
  <2>1. /\ c \in created /\ psp' \in Int /\ psp' # 0
        /\ memory' \in [Addresses -> Words]
        /\ FrameFits(c, psp)'
        /\ \A u \in Tasks : u # c => \A b \in StackWords(u) : memory'[b] = memory[b]
    BY <1>5, EntryFits
  <2>2. TypeInv'
    BY <1>1, <1>3, <2>1 DEF TypeInv, Phase
  <2>3. ASSUME NEW u \in created', ~Live(u)' PROVE FrameFits(u, stack_ptr[u] + 9)'
    <3>1. u \in created /\ ~Live(u) /\ u # c /\ u \in Tasks
      BY <1>1, <2>1, <2>3 DEF Live, TypeInv
    <3> QED
      BY <1>1, <2>1, <3>1, OtherFrameKept
  <2>4. ContextInv'
    <3>1. \A u \in created' : ~Live(u)' => FrameFits(u, stack_ptr[u] + 9)'
      BY <2>3
    <3>2. curr_task_ptr' = c /\ FrameFits(curr_task_ptr, psp)'
      BY <1>1, <2>1 DEF FrameFits, StackTop
    <3> QED
      BY <1>1, <1>2, <2>1, <3>1, <3>2 DEF ContextInv
  <2> QED
    BY <2>2, <2>4
<1> QED
  BY <1>1, <1>4, <1>5

\* With what was running saved, the frames of all tasks are in their stacks.
LEMMA HandlerFits ==
  ASSUME TypeInv, ContextInv, pendsv_handler
  PROVE  /\ memory' \in [Addresses -> Words] /\ stack_ptr' \in [Tasks -> Int]
         /\ \A u \in created : FrameFits(u, stack_ptr[u] + 9)'
<1>1. CASE psp = 0
  <2>1. memory' = memory /\ stack_ptr' = stack_ptr
    BY <1>1 DEF pendsv_handler, HasContext
  <2>2. ASSUME NEW u \in created PROVE FrameFits(u, stack_ptr[u] + 9)'
    <3>1. ~Live(u)
      BY <1>1 DEF Live
    <3> QED
      BY <2>1, <3>1, OtherFrameKept
  <2> QED
    BY <2>1, <2>2 DEF TypeInv
<1>2. CASE psp # 0
  <2> PICK c \in Tasks : c = curr_task_ptr
    BY <1>2 DEF TypeInv, ContextInv
  <2>1. /\ c \in created
        /\ memory' \in [Addresses -> Words] /\ stack_ptr' \in [Tasks -> Int]
        /\ \A u \in Tasks : u # c => stack_ptr'[u] = stack_ptr[u]
        /\ FrameFits(c, stack_ptr[c] + 9)'
        /\ \A u \in Tasks : u # c => \A b \in StackWords(u) : memory'[b] = memory[b]
    BY <1>2, HandlerSaves
  <2>2. ASSUME NEW u \in created PROVE FrameFits(u, stack_ptr[u] + 9)'
    <3>1. CASE u = c
      BY <2>1, <3>1
    <3>2. CASE u # c
      <4>1. ~Live(u) /\ u \in Tasks
        BY <3>2 DEF Live, TypeInv
      <4> QED
        BY <2>1, <3>2, <4>1, OtherFrameKept
    <3> QED
      BY <3>1, <3>2
  <2> QED
    BY <2>1, <2>2
<1> QED
  BY <1>1, <1>2

LEMMA HandlerStep ==
  ASSUME TypeInv, ContextInv, pendsv_handler
  PROVE  TypeInv' /\ ContextInv'
<1>1. /\ memory' \in [Addresses -> Words] /\ stack_ptr' \in [Tasks -> Int]
      /\ \A u \in created : FrameFits(u, stack_ptr[u] + 9)'
  BY HandlerFits
<1>2. /\ phase = "handler_entry" /\ phase' = "handler_exit"
      /\ curr_task_ptr' = highest_prio_task_ptr /\ created' = created
      /\ highest_prio_task_ptr' = highest_prio_task_ptr
      /\ highest_prio_task_ptr \in created
  BY DEF pendsv_handler, ContextInv
<1> PICK h \in Tasks : h = highest_prio_task_ptr
  BY <1>2 DEF TypeInv
<1> PICK a \in Int : a = stack_ptr'[h] + 9
  BY <1>1
<1>3. psp' = a /\ stack_ptr'[curr_task_ptr'] = a - 9
  BY <1>1, <1>2 DEF pendsv_handler
<1>4. FrameFits(h, stack_ptr[h] + 9)' /\ FrameFits(h, a)'
  <2>1. FrameFits(h, stack_ptr[h] + 9)'
    BY <1>1, <1>2
  <2> QED
    BY <2>1 DEF FrameFits, BehindFrame
<1>5. a # 0 /\ \A i \in -9..7 : a + i \in Addresses
  <2> PICK b \in {a + 8, a + 9} : b = BehindFrame(a)'
    BY DEF BehindFrame
  <2>1. stack_addr[h] + 9 <= a /\ b <= StackTop(h)
    BY <1>4 DEF FrameFits
  <2> QED
    BY <2>1, PlaceInStack
<1>6. cpu' \in [Registers -> Words]
  <2>1. cpu' = [r \in Registers |->
                  IF r = "lr" THEN memory'[a - 9 + 8]
                  ELSE IF r \in Range(SavedRegisters) THEN memory'[a - 9 + LoadOffset(r)]
                  ELSE cpu[r]]
    BY <1>3 DEF pendsv_handler
  <2>2. a - 9 + 8 \in Addresses
    <3>1. a - 9 + 8 = a + (-1) /\ -1 \in -9..7
      OBVIOUS
    <3> QED
      BY <1>5, <3>1
  <2>3. ASSUME NEW r \in Range(SavedRegisters) PROVE a - 9 + LoadOffset(r) \in Addresses
    <3> PICK i \in 0..7 : i = LoadOffset(r)
      BY SavedOffset DEF LoadOffset
    <3>1. a - 9 + i = a + (i - 9) /\ i - 9 \in -9..7
      OBVIOUS
    <3> QED
      BY <1>5, <3>1
  <2>4. \A r \in Registers : cpu[r] \in Words
    BY DEF TypeInv
  <2> QED
    BY <1>1, <2>1, <2>2, <2>3, <2>4
<1>7. TypeInv'
  BY <1>1, <1>2, <1>3, <1>6 DEF TypeInv, Phase
<1>8. ContextInv'
  <2>1. \A u \in created' : ~Live(u)' => FrameFits(u, stack_ptr[u] + 9)'
    BY <1>1, <1>2
  <2>2. FrameFits(curr_task_ptr, psp)'
    BY <1>2, <1>3, <1>4 DEF FrameFits, BehindFrame, StackTop
  <2>3. curr_task_ptr' = h /\ h # NoTask /\ psp' # 0
    BY <1>2, <1>3, <1>5, StackBounds
  <2> QED
    BY <1>2, <2>1, <2>2, <2>3 DEF ContextInv
<1> QED
  BY <1>7, <1>8

LEMMA ReturnStep ==
  ASSUME TypeInv, ContextInv, ExceptionReturn
  PROVE  TypeInv' /\ ContextInv'
<1>1. /\ phase = "handler_exit" /\ psp # 0 /\ curr_task_ptr \in created
      /\ UNCHANGED <<created, stack_ptr, memory, curr_task_ptr, highest_prio_task_ptr>>
      /\ FrameFits(curr_task_ptr, psp)
  BY DEF ExceptionReturn, ContextInv
<1> PICK c \in Tasks : c = curr_task_ptr
  BY <1>1 DEF TypeInv
<1>2. c # NoTask /\ psp \in Int /\ FrameFits(c, psp)
  BY <1>1, StackBounds DEF TypeInv
<1>3. CASE pendsv
  <2>1. phase' = "handler_entry" /\ UNCHANGED <<cpu, psp>>
    BY <1>3 DEF ExceptionReturn
  <2>2. TypeInv'
    BY <1>1, <2>1 DEF TypeInv, Phase
  <2>3. FrameFits(curr_task_ptr, psp)'
    BY <1>1, <2>1 DEF FrameFits, BehindFrame, StackTop
  <2>4. ASSUME NEW u \in created', ~Live(u)' PROVE FrameFits(u, stack_ptr[u] + 9)'
    <3>1. u \in created /\ ~Live(u)
      BY <1>1, <2>1, <2>4 DEF Live
    <3> QED
      BY <1>1, <3>1, OtherFrameKept
  <2>5. ContextInv'
    <3>1. \A u \in created' : ~Live(u)' => FrameFits(u, stack_ptr[u] + 9)'
      BY <2>4
    <3> QED
      BY <1>1, <1>2, <2>1, <2>3, <3>1 DEF ContextInv
  <2> QED
    BY <2>2, <2>5
<1>4. CASE ~pendsv
  <2>1. /\ phase' = "task" /\ cpu' = Unstacked(psp, cpu) /\ psp' = BehindFrame(psp)
        /\ ~pendsv'
    BY <1>4 DEF ExceptionReturn
  <2>2. /\ \A i \in -9..7 : psp + i \in StackWords(c) /\ psp + i \in Addresses
        /\ BehindFrame(psp) \in {psp + 8, psp + 9}
    BY <1>2, FrameInStack
  <2>3. cpu' \in [Registers -> Words] /\ cpu'["xpsr"].what = "xpsr"
    <3>1. Unpadded(memory[psp + 7]) \in Words /\ Unpadded(memory[psp + 7]).what = "xpsr"
      <4> PICK w \in Words : w = memory[psp + 7]
        BY <2>2 DEF TypeInv
      <4> QED
        BY PaddedWord
    <3>2. ASSUME NEW r \in Range(FrameRegisters)
          PROVE  memory[psp + Offset(FrameRegisters, r)] \in Words
      <4> PICK i \in 0..7 : i = Offset(FrameRegisters, r)
        BY FrameOffset
      <4>1. psp + i \in Addresses
        BY <2>2
      <4> QED
        BY <4>1 DEF TypeInv
    <3>3. "xpsr" \in Registers
      BY RegisterNames
    <3> QED
      BY <2>1, <3>1, <3>2, <3>3 DEF Unstacked, TypeInv
  <2>4. TypeInv'
    BY <1>1, <2>1, <2>2, <2>3 DEF TypeInv, Phase
  <2>5. /\ stack_addr[c] + 17 <= psp' - (psp' % 2) /\ psp' <= StackTop(c) /\ psp' # 0
    <3>1. /\ psp % 2 = 0 /\ stack_addr[c] + 9 <= psp /\ psp' <= StackTop(c)
          /\ stack_addr[c] \in Nat
      BY <1>2, <2>1, StackBounds DEF FrameFits
    <3>2. psp' - (psp' % 2) = psp + 8
      BY <1>2, <2>1, <2>2, <3>1
    <3> QED
      BY <1>2, <2>1, <2>2, <3>1, <3>2
  <2>6. ASSUME NEW u \in created', ~Live(u)' PROVE FrameFits(u, stack_ptr[u] + 9)'
    <3>1. u \in created /\ ~Live(u)
      BY <1>1, <2>1, <2>5, <2>6 DEF Live
    <3> QED
      BY <1>1, <3>1, OtherFrameKept
  <2>7. ContextInv'
    <3>1. \A u \in created' : ~Live(u)' => FrameFits(u, stack_ptr[u] + 9)'
      BY <2>6
    <3>2. /\ stack_addr[curr_task_ptr'] + 17 <= psp' - (psp' % 2)
          /\ psp' <= StackTop(curr_task_ptr)' /\ psp' # 0
      BY <1>1, <2>5 DEF StackTop
    <3> QED
      BY <1>1, <1>2, <2>1, <2>3, <3>1, <3>2 DEF ContextInv
  <2> QED
    BY <2>4, <2>7
<1> QED
  BY <1>3, <1>4

\* A step that leaves every stack as it is.
LEMMA StacksUntouched ==
  ASSUME TypeInv, ContextInv,
         UNCHANGED <<created, stack_ptr, memory, curr_task_ptr>>,
         \A u \in created : Live(u)' <=> Live(u)
  PROVE  \A u \in created' : ~Live(u)' => FrameFits(u, stack_ptr[u] + 9)'
BY OtherFrameKept

LEMMA ChooseStep ==
  ASSUME TypeInv, ContextInv, NEW t \in Tasks, Choose(t)
  PROVE  TypeInv' /\ ContextInv'
<1>1. /\ phase # "main" /\ t \in created /\ highest_prio_task_ptr' = t
      /\ UNCHANGED <<created, stack_ptr, memory, cpu, psp, phase, curr_task_ptr>>
  BY DEF Choose
<1>2. TypeInv'
  BY <1>1 DEF TypeInv
<1>3. \A u \in created' : ~Live(u)' => FrameFits(u, stack_ptr[u] + 9)'
  BY <1>1, StacksUntouched DEF Live
<1>4. FrameFits(curr_task_ptr, psp)' <=> FrameFits(curr_task_ptr, psp)
  BY <1>1 DEF FrameFits, BehindFrame, StackTop
<1>5. StackTop(curr_task_ptr)' = StackTop(curr_task_ptr)
  BY <1>1 DEF StackTop
<1> QED
  BY <1>1, <1>2, <1>3, <1>4, <1>5 DEF ContextInv

LEMMA ComputeStep ==
  ASSUME TypeInv, ContextInv, NEW t \in Tasks, Compute(t)
  PROVE  TypeInv' /\ ContextInv'
<1>1. /\ phase = "task"
      /\ UNCHANGED <<created, stack_ptr, memory, psp, phase, pendsv,
                     curr_task_ptr, highest_prio_task_ptr>>
  BY DEF Compute, Running
<1>2. cpu' \in [Registers -> Words] /\ cpu'["xpsr"].what = "xpsr"
  <2> PICK gen \in Generations[t] : cpu' = Computed(t, gen)
    BY DEF Compute
  <2>1. cpu' = [r \in Registers |-> Word(t, r, gen)]
    BY DEF Computed
  <2>2. \A r \in Registers : Word(t, r, gen) \in Words /\ Word(t, r, gen).what = r
    BY GenWords DEF Word, Words, Whats
  <2>3. "xpsr" \in Registers
    BY RegisterNames
  <2> QED
    BY <2>1, <2>2, <2>3
<1>3. TypeInv'
  BY <1>1, <1>2 DEF TypeInv
<1>4. \A u \in created' : ~Live(u)' => FrameFits(u, stack_ptr[u] + 9)'
  BY <1>1, StacksUntouched DEF Live
<1>5. StackTop(curr_task_ptr)' = StackTop(curr_task_ptr)
  BY <1>1 DEF StackTop
<1> QED
  BY <1>1, <1>2, <1>3, <1>4, <1>5 DEF ContextInv

\* A word pushed on the stack of the running task.
LEMMA PushFits ==
  ASSUME TypeInv, ContextInv, NEW t \in Tasks, Push(t)
  PROVE  /\ phase = "task" /\ curr_task_ptr = t /\ t \in created
         /\ psp \in Int /\ psp' = psp - 1 /\ psp <= StackTop(t)
         /\ stack_addr[t] + 17 <= psp' - (psp' % 2) /\ psp' # 0
         /\ \E gen \in Generations[t] :
              /\ Word(t, "data", gen) \in Words
              /\ memory' \in [Addresses -> Words]
              /\ \A b \in Addresses :
                   memory'[b] = IF b = psp - 1 THEN Word(t, "data", gen) ELSE memory[b]
         /\ psp - 1 \in Addresses
         /\ \A u \in Tasks : u # t => \A b \in StackWords(u) : memory'[b] = memory[b]
<1>1. /\ phase = "task" /\ curr_task_ptr = t /\ psp' = psp - 1
      /\ psp - 1 >= stack_addr[t] + 18
  BY DEF Push, Running, CONTEXT_WORDS
<1>2. t \in created /\ psp \in Int /\ psp <= StackTop(t)
  BY <1>1 DEF ContextInv, TypeInv
<1>3. stack_addr[t] \in Nat /\ stack_size[t] \in Nat /\ StackTop(t) <= stack_addr[t] + stack_size[t]
      /\ StackTop(t) \in Int
  BY StackBounds
<1>4. stack_addr[t] + 17 <= psp' - (psp' % 2) /\ psp' # 0
  BY <1>1, <1>2, <1>3
<1>5. psp - 1 \in StackWords(t) /\ psp - 1 \in Addresses
  <2>1. psp - 1 \in StackWords(t)
    BY <1>1, <1>2, <1>3 DEF StackWords
  <2> QED
    BY <2>1, StackBounds
<1> PICK gen \in Generations[t] : memory' = Written(memory, psp', <<Word(t, "data", gen)>>)
  BY DEF Push
<1> PICK w \in Words : w = Word(t, "data", gen)
  BY GenWords DEF Word, Words, Whats
<1> PICK a \in Int : a = psp - 1
  BY <1>2
<1>6. /\ memory' \in [Addresses -> Words]
      /\ \A b \in Addresses : memory'[b] = IF b = a THEN w ELSE memory[b]
  <2>1. memory \in [Addresses -> Words] /\ 1 \in Nat /\ <<w>> \in [1..1 -> Words]
    BY DEF TypeInv
  <2>2. /\ Written(memory, a, <<w>>) \in [Addresses -> Words]
        /\ \A b \in Addresses :
             Written(memory, a, <<w>>)[b] = IF a <= b /\ b < a + 1 THEN <<w>>[b - a + 1] ELSE memory[b]
    BY <2>1, WrittenWords, ZenonT(30)
  <2>3. Addresses \subseteq Int
    BY StacksAssumption DEF Addresses
  <2>4. memory' = Written(memory, a, <<w>>)
    BY <1>1
  <2>5. ASSUME NEW b \in Addresses PROVE memory'[b] = IF b = a THEN w ELSE memory[b]
    <3>1. b \in Int
      BY <2>3
    <3>2. CASE b = a
      <4>1. a <= b /\ b < a + 1 /\ b - a + 1 = 1
        BY <3>2
      <4> QED
        BY <2>2, <2>4, <3>2, <4>1
    <3>3. CASE b # a
      <4>1. ~(a <= b /\ b < a + 1)
        BY <3>1, <3>3
      <4> QED
        BY <2>2, <2>4, <3>3, <4>1
    <3> QED
      BY <3>2, <3>3
  <2> QED
    BY <2>2, <2>4, <2>5
<1>7. ASSUME NEW u \in Tasks, u # t, NEW b \in StackWords(u) PROVE memory'[b] = memory[b]
  <2>1. b \in Addresses /\ b \notin StackWords(t)
    BY <1>7, StackBounds, StacksApart
  <2> QED
    BY <1>5, <1>6, <2>1
<1> QED
  BY <1>1, <1>2, <1>4, <1>5, <1>6, <1>7

LEMMA PushStep ==
  ASSUME TypeInv, ContextInv, NEW t \in Tasks, Push(t)
  PROVE  TypeInv' /\ ContextInv'
<1>1. /\ phase = "task" /\ curr_task_ptr = t /\ t \in created
      /\ psp \in Int /\ psp' = psp - 1 /\ psp <= StackTop(t)
      /\ stack_addr[t] + 17 <= psp' - (psp' % 2) /\ psp' # 0
      /\ memory' \in [Addresses -> Words]
      /\ \A u \in Tasks : u # t => \A b \in StackWords(u) : memory'[b] = memory[b]
  BY PushFits
<1>2. UNCHANGED <<created, stack_ptr, cpu, phase, pendsv, curr_task_ptr, highest_prio_task_ptr>>
  BY DEF Push
<1>3. TypeInv'
  BY <1>1, <1>2 DEF TypeInv
<1>4. ASSUME NEW u \in created', ~Live(u)' PROVE FrameFits(u, stack_ptr[u] + 9)'
  <2>1. u \in created /\ u \in Tasks /\ u # t /\ ~Live(u)
    BY <1>1, <1>2, <1>4 DEF Live, TypeInv
  <2> QED
    BY <1>1, <1>2, <2>1, OtherFrameKept
<1>5. ContextInv'
  <2>1. \A u \in created' : ~Live(u)' => FrameFits(u, stack_ptr[u] + 9)'
    BY <1>4
  <2>2. /\ stack_addr[curr_task_ptr'] + 17 <= psp' - (psp' % 2)
        /\ psp' <= StackTop(curr_task_ptr)'
    <3>1. StackTop(curr_task_ptr)' = StackTop(t) /\ StackTop(t) \in Int
      BY <1>1, <1>2, StackBounds DEF StackTop
    <3> QED
      BY <1>1, <1>2, <3>1
  <2> QED
    BY <1>1, <1>2, <2>1, <2>2 DEF ContextInv
<1> QED
  BY <1>3, <1>5

LEMMA PopStep ==
  ASSUME TypeInv, ContextInv, NEW t \in Tasks, Pop(t)
  PROVE  TypeInv' /\ ContextInv'
<1>1. /\ phase = "task" /\ curr_task_ptr = t /\ psp < StackTop(t) /\ psp' = psp + 1
      /\ UNCHANGED <<created, stack_ptr, memory, cpu, phase, pendsv,
                     curr_task_ptr, highest_prio_task_ptr>>
  BY DEF Pop, Running
<1>2. /\ stack_addr[t] + 17 <= psp - (psp % 2) /\ psp \in Int /\ cpu["xpsr"].what = "xpsr"
      /\ t \in created /\ highest_prio_task_ptr \in created
  BY <1>1, StackBounds DEF ContextInv, TypeInv
<1>3. StackTop(t) \in Int /\ stack_addr[t] \in Nat
  BY StackBounds
<1>4. stack_addr[t] + 17 <= psp' - (psp' % 2) /\ psp' <= StackTop(t) /\ psp' # 0 /\ psp # 0
  BY <1>1, <1>2, <1>3
<1>5. TypeInv'
  BY <1>1, <1>2 DEF TypeInv
<1>6. \A u \in created' : ~Live(u)' => FrameFits(u, stack_ptr[u] + 9)'
  BY <1>1, <1>4, StacksUntouched DEF Live
<1>7. StackTop(curr_task_ptr)' = StackTop(t)
  BY <1>1 DEF StackTop
<1>8. t # NoTask
  BY StackBounds
<1> QED
  BY <1>1, <1>2, <1>4, <1>5, <1>6, <1>7, <1>8 DEF ContextInv

LEMMA ContextNext ==
  ASSUME StacksLargeEnough, TypeInv, ContextInv, [Next]_vars
  PROVE  TypeInv' /\ ContextInv'
<1>1. CASE \E t \in Tasks : CreateTask(t) \/ Choose(t) \/ Compute(t) \/ Push(t) \/ Pop(t)
  BY <1>1, CreateTaskStep, ChooseStep, ComputeStep, PushStep, PopStep
<1>2. CASE start_thinkernel
  BY <1>2, StartStep
<1>3. CASE PendSVEntry
  BY <1>3, EntryStep
<1>4. CASE pendsv_handler
  BY <1>4, HandlerStep
<1>5. CASE ExceptionReturn
  BY <1>5, ReturnStep
<1>6. CASE UNCHANGED vars
  <2>1. TypeInv'
    BY <1>6 DEF vars, TypeInv
  <2>2. \A u \in created' : ~Live(u)' => FrameFits(u, stack_ptr[u] + 9)'
    BY <1>6, StacksUntouched DEF vars, Live
  <2>3. /\ StackTop(curr_task_ptr)' = StackTop(curr_task_ptr)
        /\ FrameFits(curr_task_ptr, psp)' <=> FrameFits(curr_task_ptr, psp)
    BY <1>6 DEF vars, FrameFits, BehindFrame, StackTop
  <2> QED
    BY <1>6, <2>1, <2>2, <2>3 DEF vars, ContextInv
<1> QED
  BY <1>1, <1>2, <1>3, <1>4, <1>5, <1>6 DEF Next

\* No step of the handler, of create_task or of a task breaks the layout of the
\* stacks that ContextInv describes.
THEOREM ContextInvariance ==
  ASSUME StacksLargeEnough
  PROVE  Spec => [](TypeInv /\ ContextInv)
<1>1. Init => TypeInv /\ ContextInv
  BY ContextInit
<1>2. TypeInv /\ ContextInv /\ [Next]_vars => (TypeInv /\ ContextInv)'
  BY ContextNext
<1> QED
  BY <1>1, <1>2, PTL DEF Spec

(***************************************************************************)
(* Whatever the tasks do on their stacks and whenever the tick interrupts, *)
(* init_stack and pendsv_handler save the context of a task in the stack   *)
(* the caller of create_task gave it, provided the tasks leave the handler *)
(* the words it needs.                                                     *)
(***************************************************************************)
THEOREM SavesCorrect ==
  ASSUME StacksLargeEnough
  PROVE  Spec => []SavesInOwnStack
<1>1. TypeInv /\ ContextInv => SavesInOwnStack
  <2> SUFFICES ASSUME TypeInv, ContextInv, NEW t \in created PROVE
        /\ ~Live(t) => /\ stack_addr[t] <= stack_ptr[t]
                       /\ stack_ptr[t] + 17 <= stack_addr[t] + stack_size[t]
        /\ Live(t) => stack_addr[t] + 9 <= psp /\ psp <= stack_addr[t] + stack_size[t]
    BY DEF SavesInOwnStack
  <2>1. /\ t \in Tasks /\ psp \in Int /\ stack_ptr[t] \in Int
        /\ stack_addr[t] \in Nat /\ stack_size[t] \in Nat /\ StackTop(t) \in Int
        /\ StackTop(t) <= stack_addr[t] + stack_size[t]
    BY StackBounds DEF TypeInv
  <2>2. \A a \in Int : FrameFits(t, a) =>
          stack_addr[t] + 9 <= a /\ a + 8 <= stack_addr[t] + stack_size[t]
    <3> TAKE a \in Int
    <3> HAVE FrameFits(t, a)
    <3>1. BehindFrame(a) \in {a + 8, a + 9}
      BY DEF BehindFrame
    <3> QED
      BY <2>1, <3>1 DEF FrameFits
  <2>3. CASE ~Live(t)
    <3>1. FrameFits(t, stack_ptr[t] + 9)
      BY <2>3 DEF ContextInv
    <3> PICK a \in Int : a = stack_ptr[t] + 9
      BY <2>1
    <3>2. stack_addr[t] + 9 <= a /\ a + 8 <= stack_addr[t] + stack_size[t]
      BY <2>2, <3>1
    <3> QED
      BY <2>1, <2>3, <3>2
  <2>4. CASE Live(t)
    <3>1. curr_task_ptr = t /\ psp # 0 /\ phase \in {"task", "handler_entry", "handler_exit"}
      BY <2>4 DEF Live, TypeInv, Phase
    <3>2. CASE phase = "task"
      <4>1. stack_addr[t] + 17 <= psp - (psp % 2) /\ psp <= StackTop(t)
        BY <3>1, <3>2 DEF ContextInv
      <4> QED
        BY <2>1, <2>4, <4>1
    <3>3. CASE phase # "task"
      <4>1. FrameFits(t, psp)
        BY <3>1, <3>3 DEF ContextInv
      <4>2. stack_addr[t] + 9 <= psp /\ psp + 8 <= stack_addr[t] + stack_size[t]
        BY <2>1, <2>2, <4>1
      <4> QED
        BY <2>1, <2>4, <4>2
    <3> QED
      BY <3>2, <3>3
  <2> QED
    BY <2>3, <2>4
<1> QED
  BY <1>1, ContextInvariance, PTL

-----------------------------------------------------------------------------
(* The refinement: where the context of a task is changes, the context     *)
(* does not                                                                *)

current == IF psp = 0 THEN NoTask ELSE curr_task_ptr
registers == [t \in Tasks |-> RegistersOf(t)]
stack == [t \in Tasks |-> StackOf(t)]

LEMMA BlockKept ==
  ASSUME NEW a \in Int, NEW n \in Int,
         \A b \in Int : a <= b /\ b < a + n => memory'[b] = memory[b]
  PROVE  Block(a, n)' = Block(a, n)
<1>1. ASSUME NEW i \in 1..n PROVE memory'[a + i - 1] = memory[a + i - 1]
  <2>1. a + i - 1 \in Int /\ a <= a + i - 1 /\ a + i - 1 < a + n
    OBVIOUS
  <2> QED
    BY <2>1
<1> QED
  BY <1>1 DEF Block

SavedStack(t) ==
  Block(BehindFrame(stack_ptr[t] + 9), StackTop(t) - BehindFrame(stack_ptr[t] + 9))

\* A context that is in memory, and that nothing is done to.
LEMMA SuspendedSame ==
  ASSUME TypeInv, ContextInv, NEW u \in created, ~Live(u), stack_ptr'[u] = stack_ptr[u],
         \A b \in StackWords(u) : memory'[b] = memory[b]
  PROVE  /\ Suspended(u)' = Suspended(u) /\ SavedStack(u)' = SavedStack(u)
         /\ RegistersOf(u) = Suspended(u) /\ StackOf(u) = SavedStack(u)
<1>1. u \in Tasks /\ stack_ptr[u] \in Int /\ ~Running(u)
  BY DEF TypeInv, ContextInv, Live, Running
<1> PICK a \in Int : a = stack_ptr[u] + 9
  BY <1>1
<1>2. FrameFits(u, a)
  BY DEF ContextInv
<1>3. \A i \in -9..7 : a + i \in StackWords(u)
  BY <1>1, <1>2, FrameInStack
<1>4. \A i \in -9..7 : memory'[a + i] = memory[a + i]
  BY <1>3
<1>5. BehindFrame(a) \in {a + 8, a + 9} /\ BehindFrame(a) <= StackTop(u)
  BY <1>1, <1>2, FrameInStack DEF FrameFits
<1>6. stack_ptr[u] = a - 9 /\ stack_ptr'[u] = a - 9
  BY <1>1
<1>7. Suspended(u)' = Suspended(u)
  <2>1. ASSUME NEW r \in Range(FrameRegisters)
        PROVE  memory'[a + Offset(FrameRegisters, r)] = memory[a + Offset(FrameRegisters, r)]
    <3> PICK i \in 0..7 : i = Offset(FrameRegisters, r)
      BY FrameOffset
    <3> QED
      BY <1>4
  <2>2. ASSUME NEW r \in Range(SavedRegisters)
        PROVE  memory'[a - 9 + Offset(SavedRegisters, r)] = memory[a - 9 + Offset(SavedRegisters, r)]
    <3> PICK i \in 0..7 : i = Offset(SavedRegisters, r)
      BY SavedOffset
    <3>1. a - 9 + i = a + (i - 9) /\ i - 9 \in -9..7
      OBVIOUS
    <3> QED
      BY <1>4, <3>1
  <2>3. memory'[a + 7] = memory[a + 7]
    BY <1>4
  <2>4. stack_ptr[u] + 9 = a /\ stack_ptr'[u] + 9 = a
    BY <1>6
  <2> QED
    BY <1>6, <2>1, <2>2, <2>3, <2>4 DEF Suspended, Unstacked
<1>8. BehindFrame(stack_ptr[u] + 9)' = BehindFrame(a)
      /\ BehindFrame(stack_ptr[u] + 9) = BehindFrame(a)
  <2>1. memory'[a + 7] = memory[a + 7]
    BY <1>4
  <2>2. stack_ptr'[u] + 9 = a /\ stack_ptr[u] + 9 = a
    BY <1>6
  <2> QED
    BY <2>1, <2>2 DEF BehindFrame
<1>9. SavedStack(u)' = SavedStack(u)
  <2> PICK sp \in Int : sp = BehindFrame(a) /\ sp \in {a + 8, a + 9}
    BY <1>5
  <2> PICK n \in Int : n = StackTop(u) - sp
    BY <1>1, StackBounds
  <2>1. ASSUME NEW b \in Int, sp <= b, b < sp + n PROVE memory'[b] = memory[b]
    <3>1. stack_addr[u] \in Nat /\ stack_size[u] \in Nat /\ StackTop(u) <= stack_addr[u] + stack_size[u]
          /\ stack_addr[u] + 9 <= a /\ StackTop(u) \in Int
      BY <1>1, <1>2, StackBounds DEF FrameFits
    <3>2. b \in StackWords(u)
      BY <2>1, <3>1 DEF StackWords
    <3> QED
      BY <3>2
  <2>2. Block(sp, n)' = Block(sp, n)
    BY <2>1, BlockKept
  <2>3. BehindFrame(stack_ptr[u] + 9)' = sp /\ BehindFrame(stack_ptr[u] + 9) = sp
        /\ StackTop(u)' = StackTop(u)
    BY <1>8 DEF StackTop
  <2> QED
    BY <2>2, <2>3 DEF SavedStack, Block
<1>10. RegistersOf(u) = Suspended(u) /\ StackOf(u) = SavedStack(u)
  BY <1>1 DEF RegistersOf, StackOf, StackPointerOf, SavedStack
<1> QED
  BY <1>7, <1>9, <1>10

LEMMA SuspendedKept ==
  ASSUME TypeInv, ContextInv, NEW u \in created, ~Live(u), ~Live(u)', ~Running(u)',
         created \subseteq created', stack_ptr'[u] = stack_ptr[u],
         \A b \in StackWords(u) : memory'[b] = memory[b]
  PROVE  RegistersOf(u)' = RegistersOf(u) /\ StackOf(u)' = StackOf(u)
<1>1. /\ Suspended(u)' = Suspended(u) /\ SavedStack(u)' = SavedStack(u)
      /\ RegistersOf(u) = Suspended(u) /\ StackOf(u) = SavedStack(u)
  BY SuspendedSame
<1>2. u \in created'
  OBVIOUS
<1>3. RegistersOf(u)' = Suspended(u)' /\ StackOf(u)' = SavedStack(u)'
  BY <1>2 DEF RegistersOf, StackOf, StackPointerOf, SavedStack
<1> QED
  BY <1>1, <1>3

\* A task that runs on.
LEMMA RunningKept ==
  ASSUME TypeInv, ContextInv, NEW u \in created, Running(u), Running(u)',
         created \subseteq created', cpu' = cpu, psp' = psp,
         \A b \in StackWords(u) : memory'[b] = memory[b]
  PROVE  RegistersOf(u)' = RegistersOf(u) /\ StackOf(u)' = StackOf(u)
<1>1. u \in Tasks /\ psp \in Int /\ u \in created'
      /\ stack_addr[u] + 17 <= psp - (psp % 2)
  BY DEF TypeInv, ContextInv, Running
<1>2. RegistersOf(u)' = cpu' /\ RegistersOf(u) = cpu
  BY <1>1 DEF RegistersOf
<1>3. StackPointerOf(u)' = psp /\ StackPointerOf(u) = psp
  BY DEF StackPointerOf
<1> PICK n \in Int : n = StackTop(u) - psp
  BY <1>1, StackBounds
<1>4. ASSUME NEW b \in Int, psp <= b, b < psp + n PROVE memory'[b] = memory[b]
  <2>1. stack_addr[u] \in Nat /\ stack_size[u] \in Nat /\ StackTop(u) <= stack_addr[u] + stack_size[u]
        /\ StackTop(u) \in Int
    BY <1>1, StackBounds
  <2>2. stack_addr[u] <= psp
    BY <1>1, <2>1
  <2>3. b \in StackWords(u)
    BY <1>1, <1>4, <2>1, <2>2 DEF StackWords
  <2> QED
    BY <2>3
<1> PICK sp \in Int : sp = psp
  BY <1>1
<1>5. Block(sp, n)' = Block(sp, n)
  BY <1>4, BlockKept
<1>6. StackOf(u)' = StackOf(u)
  <2>1. StackPointerOf(u)' = sp /\ StackPointerOf(u) = sp /\ StackTop(u)' = StackTop(u)
    BY <1>3 DEF StackTop
  <2> QED
    BY <1>1, <1>5, <2>1 DEF StackOf, Block
<1> QED
  BY <1>2, <1>6

\* A task starts with the registers and the empty stack it is created with.
LEMMA InitStackMaps ==
  ASSUME StacksLargeEnough, TypeInv, ContextInv, NEW t \in Tasks, init_stack(t),
         t \notin created, ~Live(t)', ~Running(t)'
  PROVE  RegistersOf(t)' = RegistersOf(t) /\ StackOf(t)' = StackOf(t)
<1>1. RegistersOf(t) = InitialRegisters(t) /\ StackOf(t) = <<>>
  BY DEF RegistersOf, StackOf
<1> PICK top \in Int : top = StackTop(t)
  BY StackBounds
<1>2. /\ t \in created' /\ stack_ptr'[t] = top - 17
      /\ BehindFrame(stack_ptr[t] + 9)' = top
      /\ \A i \in 1..17 : memory'[top - 18 + i] = InitialFrame(t)[i]
  BY InitStackFits
<1>3. StackOf(t)' = <<>>
  <2>1. StackPointerOf(t)' = top /\ StackTop(t)' = top
    BY <1>2 DEF StackPointerOf, StackTop
  <2>2. StackOf(t)' = [i \in 1..(top - top) |-> memory'[top + i - 1]]
    BY <1>2, <2>1 DEF StackOf, Block
  <2>3. 1..(top - top) = {}
    OBVIOUS
  <2> QED
    BY <2>2, <2>3
<1>4. \A i \in 1..8 : /\ memory'[top - 18 + i] = InitialRegisters(t)[SavedRegisters[i]]
                      /\ memory'[top - 9 + i] = InitialRegisters(t)[FrameRegisters[i]]
  <2>1. ASSUME NEW i \in 1..8 PROVE memory'[top - 9 + i] = InitialFrame(t)[i + 9]
    <3>1. i + 9 \in 1..17 /\ top - 18 + (i + 9) = top - 9 + i
      OBVIOUS
    <3> QED
      BY <1>2, <3>1
  <2>2. \A i \in 1..8 : memory'[top - 18 + i] = InitialFrame(t)[i]
    BY <1>2
  <2> QED
    BY <2>1, <2>2, InitialWords
<1>5. Suspended(t)' = InitialRegisters(t)
  <2>1. stack_ptr'[t] + 9 = top - 8
    BY <1>2
  <2>2. Unpadded(memory'[top - 8 + 7]) = InitialRegisters(t)["xpsr"]
    <3>1. top - 8 + 7 = top - 9 + 8
      OBVIOUS
    <3>2. memory'[top - 8 + 7] = InitialRegisters(t)["xpsr"]
      BY <1>4, <3>1, RegisterNames
    <3>3. InitialRegisters(t)["xpsr"] \in Words /\ InitialRegisters(t)["xpsr"].what = "xpsr"
      BY InitialWords, RegisterNames
    <3> QED
      BY <3>2, <3>3, PaddedWord
  <2>3. ASSUME NEW r \in Range(FrameRegisters)
        PROVE  memory'[top - 8 + Offset(FrameRegisters, r)] = InitialRegisters(t)[r]
    <3> PICK i \in 0..7 : i = Offset(FrameRegisters, r) /\ FrameRegisters[i + 1] = r
      BY FrameOffset
    <3>1. top - 8 + i = top - 9 + (i + 1) /\ i + 1 \in 1..8
      OBVIOUS
    <3> QED
      BY <1>4, <3>1
  <2>4. ASSUME NEW r \in Range(SavedRegisters)
        PROVE  memory'[top - 17 + Offset(SavedRegisters, r)] = InitialRegisters(t)[r]
    <3> PICK i \in 0..7 : i = Offset(SavedRegisters, r) /\ SavedRegisters[i + 1] = r
      BY SavedOffset
    <3>1. top - 17 + i = top - 18 + (i + 1) /\ i + 1 \in 1..8
      OBVIOUS
    <3> QED
      BY <1>4, <3>1
  <2>5. ASSUME NEW r \in Registers PROVE Suspended(t)'[r] = InitialRegisters(t)[r]
    <3>1. r \in Range(FrameRegisters) \/ r \in Range(SavedRegisters)
      BY RegisterNames
    <3> QED
      BY <1>2, <2>1, <2>2, <2>3, <2>4, <2>5, <3>1 DEF Suspended, Unstacked
  <2>6. Suspended(t)' = [r \in Registers |-> Suspended(t)'[r]]
    BY DEF Suspended, Unstacked
  <2> QED
    BY <2>5, <2>6, InitialWords
<1>6. RegistersOf(t)' = Suspended(t)'
  BY <1>2 DEF RegistersOf
<1> QED
  BY <1>1, <1>3, <1>5, <1>6

\* Nothing that a context is made of changes.
LEMMA ContextsKept ==
  ASSUME \A u \in Tasks : RegistersOf(u)' = RegistersOf(u) /\ StackOf(u)' = StackOf(u)
  PROVE  registers' = registers /\ stack' = stack
BY DEF registers, stack

\* A task that does not exist has the context it will be created with.
LEMMA NotCreatedKept ==
  ASSUME NEW u \in Tasks, u \notin created, u \notin created'
  PROVE  RegistersOf(u)' = RegistersOf(u) /\ StackOf(u)' = StackOf(u)
BY DEF RegistersOf, StackOf, InitialRegisters

\* create_task, and the creation of the idle task, from a state where what runs
\* runs on.
LEMMA InitMaps ==
  ASSUME StacksLargeEnough, TypeInv, ContextInv, NEW t \in Tasks, init_stack(t),
         t \notin created, phase \in {"main", "task"}, phase' = phase, cpu' = cpu,
         psp' = psp, phase = "task" => curr_task_ptr' = curr_task_ptr
  PROVE  registers' = registers /\ stack' = stack /\ created' = created \cup {t}
<1>1. /\ created' = created \cup {t} /\ created' \subseteq Tasks
      /\ \A u \in Tasks : u # t => stack_ptr'[u] = stack_ptr[u]
      /\ \A u \in Tasks : u # t => \A b \in StackWords(u) : memory'[b] = memory[b]
  BY InitStackFits
<1>2. ASSUME NEW u \in created PROVE (Live(u) <=> Running(u)) /\ (Live(u)' <=> Running(u)')
                                    /\ (Running(u)' <=> Running(u))
  BY DEF Live, Running, ContextInv
<1>3. ~Live(t)' /\ ~Running(t)'
  BY DEF Live, Running, ContextInv
<1>4. ASSUME NEW u \in Tasks PROVE RegistersOf(u)' = RegistersOf(u) /\ StackOf(u)' = StackOf(u)
  <2>1. CASE u = t
    BY <1>3, <2>1, InitStackMaps
  <2>2. CASE u # t /\ u \notin created
    BY <1>1, <2>2, NotCreatedKept
  <2>3. CASE u # t /\ u \in created /\ Running(u)
    BY <1>1, <1>2, <2>3, RunningKept
  <2>4. CASE u # t /\ u \in created /\ ~Running(u)
    BY <1>1, <1>2, <2>4, SuspendedKept
  <2> QED
    BY <2>1, <2>2, <2>3, <2>4
<1> QED
  BY <1>1, <1>4, ContextsKept

LEMMA CreateMaps ==
  ASSUME StacksLargeEnough, TypeInv, ContextInv, NEW t \in Tasks, CreateTask(t)
  PROVE  Contexts!Create(t)
<1>1. registers' = registers /\ stack' = stack /\ created' = created \cup {t}
  BY InitMaps DEF CreateTask
<1>2. t \notin created /\ current' = current
  BY DEF CreateTask, current
<1> QED
  BY <1>1, <1>2 DEF Contexts!Create, registers, stack, current

LEMMA StartMaps ==
  ASSUME StacksLargeEnough, TypeInv, ContextInv, start_thinkernel
  PROVE  Contexts!Create(Idle)
<1>1. /\ Idle \in Tasks /\ Idle \notin created /\ phase = "main" /\ init_stack(Idle)
      /\ psp = 0 /\ psp' = 0 /\ UNCHANGED <<cpu, phase>>
  BY StacksAssumption DEF start_thinkernel, ContextInv
<1>2. registers' = registers /\ stack' = stack /\ created' = created \cup {Idle}
  BY <1>1, InitMaps
<1>3. current' = current
  BY <1>1 DEF current
<1> QED
  BY <1>1, <1>2, <1>3 DEF Contexts!Create, registers, stack, current

\* An exception puts a part of the context in memory.
LEMMA EntryMaps ==
  ASSUME TypeInv, ContextInv, PendSVEntry
  PROVE  registers' = registers /\ stack' = stack /\ current' = current /\ created' = created
<1>1. /\ phase' = "handler_entry" /\ phase \in {"main", "task"}
      /\ UNCHANGED <<created, stack_ptr, curr_task_ptr, highest_prio_task_ptr>>
  BY DEF PendSVEntry
<1>2. CASE phase = "main"
  <2>1. psp' = psp /\ memory' = memory /\ psp = 0
    BY <1>2 DEF PendSVEntry, ContextInv
  <2>2. ASSUME NEW u \in Tasks PROVE RegistersOf(u)' = RegistersOf(u) /\ StackOf(u)' = StackOf(u)
    <3>1. ~Live(u) /\ ~Live(u)' /\ ~Running(u)'
      BY <1>1, <2>1 DEF Live, Running
    <3>2. CASE u \in created
      BY <1>1, <2>1, <3>1, <3>2, SuspendedKept
    <3>3. CASE u \notin created
      BY <1>1, <3>3, NotCreatedKept
    <3> QED
      BY <3>2, <3>3
  <2> QED
    BY <1>1, <2>1, <2>2, ContextsKept DEF current
<1>3. CASE phase = "task"
  <2> PICK c \in Tasks : c = curr_task_ptr
    BY <1>3 DEF TypeInv, ContextInv
  <2>1. /\ c \in created /\ psp' \in Int /\ psp' # 0 /\ psp # 0 /\ psp \in Int
        /\ BehindFrame(psp)' = psp
        /\ \A i \in 0..6 : memory'[psp' + i] = cpu[FrameRegisters[i + 1]]
        /\ Unpadded(memory'[psp' + 7]) = cpu["xpsr"]
        /\ \A b \in Addresses : b >= psp => memory'[b] = memory[b]
        /\ \A u \in Tasks : u # c => \A b \in StackWords(u) : memory'[b] = memory[b]
    BY <1>3, EntryFits DEF TypeInv, ContextInv
  <2>2. cpu' = [cpu EXCEPT !["lr"] = EXC_RETURN_PSP]
    BY <1>3 DEF PendSVEntry
  <2>3. RegistersOf(c)' = Unstacked(psp, cpu)' /\ RegistersOf(c) = cpu
    BY <1>1, <1>3, <2>1 DEF RegistersOf, Running, Live
  <2>4. Unstacked(psp, cpu)' = cpu
    <3>1. ASSUME NEW r \in Range(FrameRegisters), r # "xpsr"
          PROVE  memory'[psp' + Offset(FrameRegisters, r)] = cpu[r]
      <4> PICK i \in 0..7 : i = Offset(FrameRegisters, r) /\ FrameRegisters[i + 1] = r
        BY FrameOffset
      <4>1. i # 7
        BY <3>1, RegisterNames
      <4> QED
        BY <2>1, <4>1
    <3>2. ASSUME NEW r \in Registers, r \notin Range(FrameRegisters) PROVE cpu'[r] = cpu[r]
      <4>1. "lr" \in Range(FrameRegisters)
        BY DEF FrameRegisters, Range
      <4>2. DOMAIN cpu = Registers
        BY DEF TypeInv
      <4> QED
        BY <2>2, <3>2, <4>1, <4>2
    <3>3. \A r \in Registers : Unstacked(psp, cpu)'[r] = cpu[r]
      BY <2>1, <3>1, <3>2 DEF Unstacked
    <3>4. Unstacked(psp, cpu)' = [r \in Registers |-> Unstacked(psp, cpu)'[r]]
      BY DEF Unstacked
    <3> QED
      BY <3>3, <3>4 DEF TypeInv
  <2>5. StackOf(c)' = StackOf(c)
    <3> PICK sp \in Int : sp = psp
      BY <2>1
    <3> PICK n \in Int : n = StackTop(c) - sp
      BY StackBounds
    <3>1. StackPointerOf(c)' = sp /\ StackPointerOf(c) = sp /\ StackTop(c)' = StackTop(c)
      BY <1>1, <1>3, <2>1 DEF StackPointerOf, Running, Live, StackTop
    <3>2. ASSUME NEW b \in Int, sp <= b, b < sp + n PROVE memory'[b] = memory[b]
      <4>1. stack_addr[c] \in Nat /\ stack_size[c] \in Nat /\ StackTop(c) \in Int
            /\ StackTop(c) <= stack_addr[c] + stack_size[c]
            /\ stack_addr[c] + 17 <= sp - (sp % 2)
        BY <1>3, StackBounds DEF ContextInv
      <4>2. b \in StackWords(c)
        BY <3>2, <4>1 DEF StackWords
      <4> QED
        BY <2>1, <3>2, <4>2, StackBounds
    <3>3. Block(sp, n)' = Block(sp, n)
      BY <3>2, BlockKept
    <3> QED
      BY <1>1, <2>1, <3>1, <3>3 DEF StackOf, Block
  <2>6. ASSUME NEW u \in Tasks PROVE RegistersOf(u)' = RegistersOf(u) /\ StackOf(u)' = StackOf(u)
    <3>1. CASE u = c
      BY <2>3, <2>4, <2>5, <3>1
    <3>2. CASE u # c /\ u \in created
      <4>1. ~Live(u) /\ ~Live(u)' /\ ~Running(u)'
        BY <1>1, <3>2 DEF Live, Running
      <4> QED
        BY <1>1, <2>1, <3>2, <4>1, SuspendedKept
    <3>3. CASE u # c /\ u \notin created
      BY <1>1, <3>3, NotCreatedKept
    <3> QED
      BY <3>1, <3>2, <3>3
  <2> QED
    BY <1>1, <2>1, <2>6, ContextsKept DEF current
<1> QED
  BY <1>1, <1>2, <1>3

LEMMA ReturnMaps ==
  ASSUME TypeInv, ContextInv, ExceptionReturn
  PROVE  registers' = registers /\ stack' = stack /\ current' = current /\ created' = created
<1>1. /\ phase = "handler_exit" /\ psp # 0 /\ curr_task_ptr \in created
      /\ UNCHANGED <<created, stack_ptr, memory, curr_task_ptr, highest_prio_task_ptr>>
  BY DEF ExceptionReturn, ContextInv
<1>2. CASE pendsv
  <2>1. phase' = "handler_entry" /\ UNCHANGED <<cpu, psp>>
    BY <1>2 DEF ExceptionReturn
  <2>2. ASSUME NEW u \in Tasks PROVE RegistersOf(u)' = RegistersOf(u) /\ StackOf(u)' = StackOf(u)
    BY <1>1, <2>1 DEF RegistersOf, StackOf, InitialRegisters, Running, Live, Unstacked,
                      Suspended, StackPointerOf, BehindFrame, Block, StackTop
  <2> QED
    BY <1>1, <2>1, <2>2, ContextsKept DEF current
<1>3. CASE ~pendsv
  <2>1. /\ phase' = "task" /\ cpu' = Unstacked(psp, cpu) /\ psp' = BehindFrame(psp)
    BY <1>3 DEF ExceptionReturn
  <2>2. psp' # 0
    BY ReturnStep, <2>1 DEF ContextInv
  <2>3. ASSUME NEW u \in Tasks PROVE RegistersOf(u)' = RegistersOf(u) /\ StackOf(u)' = StackOf(u)
    <3>1. CASE u = curr_task_ptr
      <4>1. ~Running(u) /\ Live(u) /\ Running(u)' /\ u \in created /\ u \in created'
        BY <1>1, <2>1, <3>1 DEF Running, Live
      <4>2. RegistersOf(u)' = cpu' /\ RegistersOf(u) = Unstacked(psp, cpu)
        BY <4>1 DEF RegistersOf
      <4>3. StackPointerOf(u)' = psp' /\ StackPointerOf(u) = BehindFrame(psp)
        BY <4>1 DEF StackPointerOf
      <4>4. StackOf(u)' = StackOf(u)
        <5> PICK sp : sp = BehindFrame(psp)
          OBVIOUS
        <5>1. StackPointerOf(u)' = sp /\ StackPointerOf(u) = sp /\ StackTop(u)' = StackTop(u)
          BY <2>1, <4>3 DEF StackTop
        <5> QED
          BY <1>1, <4>1, <5>1 DEF StackOf, Block
      <4> QED
        BY <2>1, <4>2, <4>4
    <3>2. CASE u # curr_task_ptr /\ u \in created
      <4>1. ~Live(u) /\ ~Live(u)' /\ ~Running(u)'
        BY <1>1, <3>2 DEF Live, Running
      <4> QED
        BY <1>1, <3>2, <4>1, SuspendedKept
    <3>3. CASE u \notin created
      BY <1>1, <3>3, NotCreatedKept
    <3> QED
      BY <3>1, <3>2, <3>3
  <2> QED
    BY <1>1, <2>2, <2>3, ContextsKept DEF current
<1> QED
  BY <1>2, <1>3

\* The handler completes what the exception has begun: the context of every task
\* is in memory.
LEMMA HandlerContexts ==
  ASSUME TypeInv, ContextInv, pendsv_handler, NEW u \in created
  PROVE  Suspended(u)' = RegistersOf(u) /\ SavedStack(u)' = StackOf(u)
<1>1. phase = "handler_entry" /\ created' = created
  BY DEF pendsv_handler
<1>2. CASE ~Live(u) /\ psp = 0
  <2>1. memory' = memory /\ stack_ptr' = stack_ptr
    BY <1>2 DEF pendsv_handler, HasContext
  <2> QED
    BY <1>2, <2>1, SuspendedSame
<1>3. CASE ~Live(u) /\ psp # 0
  <2> PICK c \in Tasks : c = curr_task_ptr
    BY <1>3 DEF TypeInv, ContextInv
  <2>1. u \in Tasks /\ u # c
    BY <1>1, <1>3 DEF Live, TypeInv
  <2>2. /\ stack_ptr'[u] = stack_ptr[u]
        /\ \A b \in StackWords(u) : memory'[b] = memory[b]
    BY <1>3, <2>1, HandlerSaves
  <2> QED
    BY <1>3, <2>2, SuspendedSame
<1>4. CASE Live(u)
  <2>1. u = curr_task_ptr /\ psp # 0 /\ u \in Tasks /\ psp \in Int
    BY <1>4 DEF Live, TypeInv
  <2> PICK a \in Int : a = psp
    BY <2>1
  <2>2. /\ FrameFits(u, psp) /\ stack_ptr'[u] = psp - 9
        /\ \A i \in 0..7 : memory'[psp - 9 + i] = cpu[SavedRegisters[i + 1]]
        /\ \A b \in Addresses : b >= psp => memory'[b] = memory[b]
    BY <2>1, HandlerSaves
  <2>3. stack_ptr'[u] = a - 9 /\ stack_ptr'[u] + 9 = a /\ FrameFits(u, a)
    BY <2>2
  <2>4. ASSUME NEW i \in 0..7 PROVE memory'[a + i] = memory[a + i]
    <3>1. a + i \in Addresses
      BY <2>1, <2>3, FrameInStack
    <3> QED
      BY <2>2, <3>1
  <2>5. RegistersOf(u) = Unstacked(a, cpu) /\ StackPointerOf(u) = BehindFrame(a)
    BY <1>1, <1>4 DEF RegistersOf, StackPointerOf, Running
  <2>6. Suspended(u)' = Unstacked(a, cpu)
    <3>1. ASSUME NEW r \in Range(FrameRegisters)
          PROVE  memory'[a + Offset(FrameRegisters, r)] = memory[a + Offset(FrameRegisters, r)]
      BY <2>4, FrameOffset
    <3>2. ASSUME NEW r \in Range(SavedRegisters)
          PROVE  memory'[a - 9 + Offset(SavedRegisters, r)] = cpu[r]
      <4> PICK i \in 0..7 : i = Offset(SavedRegisters, r) /\ SavedRegisters[i + 1] = r
        BY SavedOffset
      <4> QED
        BY <2>2
    <3>3. memory'[a + 7] = memory[a + 7]
      BY <2>4
    <3>4. ASSUME NEW r \in Registers PROVE Suspended(u)'[r] = Unstacked(a, cpu)[r]
      <4>1. r \in Range(FrameRegisters) \/ r \in Range(SavedRegisters)
        BY RegisterNames
      <4> QED
        BY <2>3, <3>1, <3>2, <3>3, <3>4, <4>1 DEF Suspended, Unstacked
    <3>5. /\ Suspended(u)' = [r \in Registers |-> Suspended(u)'[r]]
          /\ Unstacked(a, cpu) = [r \in Registers |-> Unstacked(a, cpu)[r]]
      BY DEF Suspended, Unstacked
    <3> QED
      BY <3>4, <3>5
  <2>7. SavedStack(u)' = StackOf(u)
    <3> PICK sp \in Int : sp = BehindFrame(a) /\ sp \in {a + 8, a + 9}
      BY <2>1, <2>3, FrameInStack
    <3> PICK n \in Int : n = StackTop(u) - sp
      BY <2>1, StackBounds
    <3>1. BehindFrame(stack_ptr[u] + 9)' = sp
      BY <2>3, <2>4 DEF BehindFrame
    <3>2. ASSUME NEW b \in Int, sp <= b, b < sp + n PROVE memory'[b] = memory[b]
      <4>1. stack_addr[u] \in Nat /\ stack_size[u] \in Nat /\ StackTop(u) \in Int
            /\ StackTop(u) <= stack_addr[u] + stack_size[u] /\ stack_addr[u] + 9 <= a
        BY <2>1, <2>3, StackBounds DEF FrameFits
      <4>2. b \in StackWords(u) /\ b >= psp
        BY <3>2, <4>1 DEF StackWords
      <4> QED
        BY <2>1, <2>2, <4>2, StackBounds
    <3>3. Block(sp, n)' = Block(sp, n)
      BY <3>2, BlockKept
    <3>4. StackTop(u)' = StackTop(u)
      BY DEF StackTop
    <3> QED
      BY <2>5, <3>1, <3>3, <3>4 DEF StackOf, SavedStack, Block
  <2> QED
    BY <2>5, <2>6, <2>7
<1> QED
  BY <1>2, <1>3, <1>4

\* And it leads to the task with the context it has in memory.
LEMMA HandlerMaps ==
  ASSUME TypeInv, ContextInv, pendsv_handler
  PROVE  \E h \in Tasks : Contexts!Switch(h)
<1>1. /\ phase' = "handler_exit" /\ created' = created
      /\ curr_task_ptr' = highest_prio_task_ptr /\ highest_prio_task_ptr \in created
  BY DEF pendsv_handler, ContextInv
<1> PICK h \in Tasks : h = highest_prio_task_ptr
  BY <1>1 DEF TypeInv
<1>2. h \in created /\ curr_task_ptr' = h /\ psp' = stack_ptr'[h] + 9
  BY <1>1 DEF pendsv_handler
<1>3. psp' # 0 /\ stack_ptr'[h] \in Int
  BY <1>1, HandlerStep DEF ContextInv, TypeInv
<1>4. ASSUME NEW u \in Tasks PROVE RegistersOf(u)' = RegistersOf(u) /\ StackOf(u)' = StackOf(u)
  <2>1. CASE u \notin created
    BY <1>1, <2>1, NotCreatedKept
  <2>2. CASE u \in created /\ u # h
    <3>1. ~Running(u)' /\ ~Live(u)' /\ u \in created'
      BY <1>1, <1>2, <2>2 DEF Running, Live
    <3>2. RegistersOf(u)' = Suspended(u)' /\ StackOf(u)' = SavedStack(u)'
      BY <3>1 DEF RegistersOf, StackOf, StackPointerOf, SavedStack
    <3> QED
      BY <2>2, <3>2, HandlerContexts
  <2>3. CASE u = h
    <3>1. ~Running(h)' /\ Live(h)' /\ h \in created'
      BY <1>1, <1>2, <1>3 DEF Running, Live
    <3>2. RegistersOf(h)' = Unstacked(psp, cpu)' /\ StackPointerOf(h)' = BehindFrame(psp)'
      BY <3>1 DEF RegistersOf, StackPointerOf
    <3>3. Unstacked(psp, cpu)' = Suspended(h)'
      <4>1. ASSUME NEW r \in Registers, r \notin Range(FrameRegisters)
            PROVE  cpu'[r] = memory'[stack_ptr'[h] + Offset(SavedRegisters, r)]
        <5>1. r \in Range(SavedRegisters) /\ r # "lr"
          <6>1. "lr" \in Range(FrameRegisters)
            BY DEF FrameRegisters, Range
          <6> QED
            BY <4>1, <6>1, RegisterNames
        <5> QED
          BY <1>2, <4>1, <5>1 DEF pendsv_handler, LoadOffset
      <4>2. \A r \in Registers : r \notin Range(FrameRegisters) => r \in Range(SavedRegisters)
        BY RegisterNames
      <4>3. "xpsr" \in Range(FrameRegisters)
        BY RegisterNames
      <4>4. ASSUME NEW r \in Registers PROVE Unstacked(psp, cpu)'[r] = Suspended(h)'[r]
        BY <1>2, <4>1, <4>2, <4>3, <4>4 DEF Unstacked, Suspended
      <4>5. /\ Unstacked(psp, cpu)' = [r \in Registers |-> Unstacked(psp, cpu)'[r]]
            /\ Suspended(h)' = [r \in Registers |-> Suspended(h)'[r]]
        BY DEF Unstacked, Suspended
      <4> QED
        BY <4>4, <4>5
    <3>4. StackOf(h)' = SavedStack(h)'
      BY <1>2, <3>1, <3>2 DEF StackOf, SavedStack, BehindFrame, StackTop, Block
    <3> QED
      BY <1>2, <2>3, <3>2, <3>3, <3>4, HandlerContexts
  <2> QED
    BY <2>1, <2>2, <2>3
<1>5. registers' = registers /\ stack' = stack /\ current' = h
  BY <1>2, <1>3, <1>4, ContextsKept DEF current
<1> QED
  BY <1>1, <1>2, <1>5 DEF Contexts!Switch, registers, stack, current

\* What one task does leaves the contexts of the others alone.
LEMMA OthersKept ==
  ASSUME TypeInv, ContextInv, NEW t \in Tasks, Running(t), NEW u \in Tasks, u # t,
         UNCHANGED <<created, stack_ptr, phase, curr_task_ptr>>,
         \A b \in StackWords(u) : memory'[b] = memory[b]
  PROVE  RegistersOf(u)' = RegistersOf(u) /\ StackOf(u)' = StackOf(u)
<1>1. CASE u \notin created
  BY <1>1, NotCreatedKept
<1>2. CASE u \in created
  <2>1. ~Live(u) /\ ~Live(u)' /\ ~Running(u)'
    BY DEF Live, Running
  <2> QED
    BY <1>2, <2>1, SuspendedKept
<1> QED
  BY <1>1, <1>2

LEMMA ComputeMaps ==
  ASSUME TypeInv, ContextInv, NEW t \in Tasks, Compute(t)
  PROVE  Contexts!Compute(t)
<1>1. /\ Running(t) /\ Running(t)' /\ t \in created /\ psp # 0
      /\ UNCHANGED <<created, stack_ptr, memory, psp, phase, pendsv,
                     curr_task_ptr, highest_prio_task_ptr>>
  BY DEF Compute, Running, ContextInv
<1> PICK gen \in Generations[t] : cpu' = Computed(t, gen)
  BY DEF Compute
<1>2. RegistersOf(t)' = Computed(t, gen)
  BY <1>1 DEF RegistersOf
<1>3. StackOf(t)' = StackOf(t)
  BY <1>1 DEF StackOf, StackPointerOf, Running, Block, StackTop
<1>4. \A u \in Tasks : u # t => RegistersOf(u)' = RegistersOf(u) /\ StackOf(u)' = StackOf(u)
  BY <1>1, OthersKept
<1>5. registers' = [registers EXCEPT ![t] = Computed(t, gen)]
  BY <1>2, <1>4 DEF registers
<1>6. stack' = stack
  BY <1>3, <1>4 DEF stack
<1>7. current = t /\ current' = current
  BY <1>1 DEF current, Running
<1>8. Computed(t, gen) \in [v \in Tasks |-> {Computed(v, g) : g \in Generations[v]}][t]
  OBVIOUS
<1> QED
  BY <1>1, <1>5, <1>6, <1>7, <1>8 DEF Contexts!Compute, registers, stack, current

LEMMA PushMaps ==
  ASSUME TypeInv, ContextInv, NEW t \in Tasks, Push(t)
  PROVE  Contexts!Push(t)
<1>1. /\ Running(t) /\ Running(t)' /\ t \in created /\ psp # 0
      /\ UNCHANGED <<created, stack_ptr, cpu, phase, pendsv, curr_task_ptr, highest_prio_task_ptr>>
  BY DEF Push, Running, ContextInv
<1>2. /\ psp \in Int /\ psp' = psp - 1 /\ psp <= StackTop(t) /\ psp' # 0
      /\ \A u \in Tasks : u # t => \A b \in StackWords(u) : memory'[b] = memory[b]
      /\ stack_addr[t] + 17 <= psp' - (psp' % 2)
  BY PushFits
<1>3. PICK gen \in Generations[t] :
        \A b \in Addresses : memory'[b] = IF b = psp - 1 THEN Word(t, "data", gen) ELSE memory[b]
  BY PushFits
<1> PICK w : w = Word(t, "data", gen)
  OBVIOUS
<1> PICK sp \in Int : sp = psp
  BY <1>2
<1> PICK n \in Nat : n = StackTop(t) - sp
  BY <1>2, StackBounds
<1>4. RegistersOf(t)' = RegistersOf(t)
  BY <1>1 DEF RegistersOf
<1>5. StackOf(t) = [i \in 1..n |-> memory[sp + i - 1]]
  BY <1>1 DEF StackOf, StackPointerOf, Block
<1>6. StackOf(t)' = [i \in 1..(n + 1) |-> memory'[(sp - 1) + i - 1]]
  <2>1. StackPointerOf(t)' = sp - 1 /\ StackTop(t)' - (sp - 1) = n + 1
    BY <1>1, <1>2, StackBounds DEF StackPointerOf, StackTop
  <2> QED
    BY <1>1, <2>1 DEF StackOf, Block
<1>7. StackOf(t)' = <<w>> \o StackOf(t)
  <2>1. ASSUME NEW b \in Int, sp - 1 <= b, b < sp + n PROVE b \in Addresses
    <3>1. stack_addr[t] \in Nat /\ stack_size[t] \in Nat /\ StackTop(t) \in Int
          /\ StackTop(t) <= stack_addr[t] + stack_size[t]
      BY StackBounds
    <3>2. b \in StackWords(t)
      BY <1>2, <2>1, <3>1 DEF StackWords
    <3> QED
      BY <3>2, StackBounds
  <2>2. memory'[sp - 1] = w
    <3>1. sp - 1 \in Addresses
      BY <2>1
    <3> QED
      BY <1>3, <3>1
  <2>3. ASSUME NEW i \in 1..n PROVE memory'[sp + i - 1] = memory[sp + i - 1]
    <3>1. sp + i - 1 \in Addresses /\ sp + i - 1 # sp - 1
      BY <2>1
    <3> QED
      BY <1>3, <3>1
  <2> DEFINE old == [i \in 1..n |-> memory[sp + i - 1]]
             new == [i \in 1..(n + 1) |-> memory'[(sp - 1) + i - 1]]
  <2>4. Len(old) = n /\ Len(<<w>>) = 1 /\ Len(new) = n + 1
    OBVIOUS
  <2>5. <<w>> \o old = [i \in 1..(n + 1) |-> IF i = 1 THEN w ELSE old[i - 1]]
    <3>1. <<w>> \o old = [i \in 1..(Len(<<w>>) + Len(old)) |->
                            IF i <= Len(<<w>>) THEN <<w>>[i] ELSE old[i - Len(<<w>>)]]
      OBVIOUS
    <3> HIDE DEF old
    <3>2. \A i \in 1..(n + 1) : (i <= 1 <=> i = 1) /\ <<w>>[1] = w
      OBVIOUS
    <3>3. 1 + n = n + 1
      OBVIOUS
    <3> QED
      BY <2>4, <3>1, <3>2, <3>3
  <2>6. ASSUME NEW i \in 1..(n + 1) PROVE new[i] = IF i = 1 THEN w ELSE old[i - 1]
    <3>1. CASE i = 1
      <4>1. (sp - 1) + i - 1 = sp - 1
        BY <3>1
      <4> QED
        BY <2>2, <3>1, <4>1
    <3>2. CASE i # 1
      <4>1. i - 1 \in 1..n /\ (sp - 1) + i - 1 = sp + (i - 1) - 1
        BY <3>2
      <4>2. memory'[sp + (i - 1) - 1] = memory[sp + (i - 1) - 1]
        BY <2>3, <4>1
      <4> QED
        BY <3>2, <4>1, <4>2
    <3> QED
      BY <3>1, <3>2
  <2>7. new = [i \in 1..(n + 1) |-> new[i]]
    OBVIOUS
  <2> HIDE DEF new
  <2>8. new = [i \in 1..(n + 1) |-> IF i = 1 THEN w ELSE old[i - 1]]
    BY <2>6, <2>7
  <2>9. StackOf(t)' = new /\ StackOf(t) = old
    BY <1>5, <1>6 DEF new
  <2> QED
    BY <2>5, <2>8, <2>9
<1>8. \A u \in Tasks : u # t => RegistersOf(u)' = RegistersOf(u) /\ StackOf(u)' = StackOf(u)
  BY <1>1, <1>2, OthersKept
<1>9. stack' = [stack EXCEPT ![t] = <<w>> \o @]
  BY <1>7, <1>8 DEF stack
<1>10. registers' = registers
  BY <1>4, <1>8 DEF registers
<1>11. current = t /\ current' = current
  BY <1>1, <1>2 DEF current, Running
<1>12. w \in [v \in Tasks |-> {Word(v, "data", g) : g \in Generations[v]}][t]
  OBVIOUS
<1> QED
  BY <1>1, <1>9, <1>10, <1>11, <1>12 DEF Contexts!Push, registers, stack, current

LEMMA PopMaps ==
  ASSUME TypeInv, ContextInv, NEW t \in Tasks, Pop(t)
  PROVE  Contexts!Pop(t)
<1>1. /\ Running(t) /\ Running(t)' /\ t \in created /\ psp # 0
      /\ psp < StackTop(t) /\ psp' = psp + 1
      /\ UNCHANGED <<created, stack_ptr, memory, cpu, phase, pendsv,
                     curr_task_ptr, highest_prio_task_ptr>>
  BY DEF Pop, Running, ContextInv
<1> PICK sp \in Int : sp = psp
  BY DEF TypeInv
<1> PICK n \in Nat : n = StackTop(t) - sp /\ n # 0
  BY <1>1, StackBounds
<1>2. psp' # 0
  BY <1>1, PopStep DEF Running, ContextInv
<1>3. RegistersOf(t)' = RegistersOf(t)
  BY <1>1 DEF RegistersOf
<1> PICK old : old = [i \in 1..n |-> memory[sp + i - 1]]
  OBVIOUS
<1>4. StackOf(t) = old
  BY <1>1 DEF StackOf, StackPointerOf, Block
<1>5. StackOf(t)' = [i \in 1..(n - 1) |-> memory[(sp + 1) + i - 1]]
  <2>1. StackPointerOf(t)' = sp + 1 /\ StackTop(t)' - (sp + 1) = n - 1
    BY <1>1, StackBounds DEF StackPointerOf, StackTop
  <2> QED
    BY <1>1, <2>1 DEF StackOf, Block
<1>6. Len(old) = n /\ old # <<>>
  OBVIOUS
<1>7. Tail(old) = [i \in 1..(n - 1) |-> memory[(sp + 1) + i - 1]]
  <2>1. Tail(old) = [i \in 1..(n - 1) |-> old[i + 1]]
    BY <1>6
  <2>2. ASSUME NEW i \in 1..(n - 1) PROVE old[i + 1] = memory[(sp + 1) + i - 1]
    <3>1. i + 1 \in 1..n /\ sp + (i + 1) - 1 = (sp + 1) + i - 1
      OBVIOUS
    <3> QED
      BY <3>1
  <2>3. [i \in 1..(n - 1) |-> old[i + 1]] = [i \in 1..(n - 1) |-> memory[(sp + 1) + i - 1]]
    BY <2>2
  <2> QED
    BY <2>1, <2>3, Zenon
<1>8. \A u \in Tasks : u # t => RegistersOf(u)' = RegistersOf(u) /\ StackOf(u)' = StackOf(u)
  BY <1>1, OthersKept
<1>9. stack' = [stack EXCEPT ![t] = Tail(@)] /\ stack[t] # <<>>
  <2>1. stack[t] = old
    BY <1>4 DEF stack
  <2>2. Tail(stack[t]) = StackOf(t)'
    BY <1>5, <1>7, <2>1
  <2>3. stack' = [u \in Tasks |-> IF u = t THEN Tail(stack[t]) ELSE stack[u]]
    BY <1>8, <2>2 DEF stack
  <2>4. DOMAIN stack = Tasks
    BY DEF stack
  <2> QED
    BY <1>6, <2>1, <2>3, <2>4
<1>10. registers' = registers
  BY <1>3, <1>8 DEF registers
<1>11. current = t /\ current' = current
  BY <1>1, <1>2 DEF current, Running
<1> QED
  BY <1>1, <1>9, <1>10, <1>11 DEF Contexts!Pop, registers, stack, current

LEMMA ContextStep ==
  ASSUME StacksLargeEnough, TypeInv, ContextInv, [Next]_vars
  PROVE  Contexts!Next \/ UNCHANGED <<created, current, registers, stack>>
<1>1. ASSUME NEW t \in Tasks, CreateTask(t) PROVE Contexts!Next
  BY <1>1, CreateMaps DEF Contexts!Next
<1>2. ASSUME NEW t \in Tasks, Compute(t) PROVE Contexts!Next
  BY <1>2, ComputeMaps DEF Contexts!Next
<1>3. ASSUME NEW t \in Tasks, Push(t) PROVE Contexts!Next
  BY <1>3, PushMaps DEF Contexts!Next
<1>4. ASSUME NEW t \in Tasks, Pop(t) PROVE Contexts!Next
  BY <1>4, PopMaps DEF Contexts!Next
<1>5. CASE start_thinkernel
  BY <1>5, StartMaps, StacksAssumption DEF Contexts!Next
<1>6. CASE pendsv_handler
  BY <1>6, HandlerMaps DEF Contexts!Next
<1>7. CASE UNCHANGED <<created, stack_ptr, memory, cpu, psp, phase, curr_task_ptr>>
  <2>1. \A u \in Tasks : RegistersOf(u)' = RegistersOf(u) /\ StackOf(u)' = StackOf(u)
    BY <1>7 DEF RegistersOf, StackOf, InitialRegisters, Running, Live, Unstacked,
                Suspended, StackPointerOf, BehindFrame, Block, StackTop
  <2> QED
    BY <1>7, <2>1, ContextsKept DEF current
<1> QED
  BY <1>1, <1>2, <1>3, <1>4, <1>5, <1>6, <1>7, EntryMaps, ReturnMaps DEF Next, Choose, vars

LEMMA ContextsInit ==
  ASSUME Init
  PROVE  Contexts!Init
BY DEF Init, Contexts!Init, RegistersOf, StackOf

(***************************************************************************)
(* The tasks cannot tell that they share a processor: a switch leads to    *)
(* where the task was, with every register and every word of its stack,    *)
(* whatever PendSV and the tick interrupt, when every stack has room for   *)
(* two frames and each task leaves that room free.                         *)
(***************************************************************************)
THEOREM ContextsImplemented ==
  ASSUME StacksLargeEnough
  PROVE  Spec => ContextSpec
<1>1. TypeInv /\ ContextInv /\ [Next]_vars => [Contexts!Next]_(Contexts!vars)
  BY ContextStep DEF Contexts!vars, current, registers, stack
<1>2. Init => Contexts!Init
  BY ContextsInit
<1> QED
  BY <1>1, <1>2, ContextInvariance, PTL DEF Spec, ContextSpec, Contexts!Spec
=============================================================================
