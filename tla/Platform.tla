------------------------------ MODULE Platform ------------------------------
(***************************************************************************)
(* The Cortex-M4 port: which exceptions the kernel's critical sections     *)
(* hold off, and the pending bit of PendSV.                                *)
(*                                                                         *)
(* In this and the other modules a definition named Wrong... is a mistake  *)
(* the definition below it could have; PROJECT.json names the property     *)
(* that TLC finds violated when it takes the place of that definition.     *)
(*                                                                         *)
(* disable_ctx_sw writes the plain number 14 to BASEPRI.  The hardware     *)
(* implements only the upper NVIC_PRIO_BITS bits of the register, and      *)
(* NVIC_SetPriority shifts the priorities it is given into those bits, so  *)
(* what the write masks depends on NVIC_PRIO_BITS (4 on the STM32F303).    *)
(***************************************************************************)
EXTENDS Naturals

CONSTANT NVIC_PRIO_BITS     \* implemented priority bits; ARMv7-M has 3..8

ASSUME PrioBitsAssumption == NVIC_PRIO_BITS \in 3..8

VARIABLES basepri,          \* the BASEPRI register, as it was written
          pendsv            \* SCB->ICSR.PENDSVSET

platformVars == <<basepri, pendsv>>

BASEPRI_MASK_PENDSV_SYSTICK == 14
BASEPRI_UNMASK_ALL == 0

\* The weight of the lowest implemented bit, 2^(8 - NVIC_PRIO_BITS).
PriorityStep == <<128, 64, 32, 16, 8, 4, 2, 1>>[NVIC_PRIO_BITS]

\* A priority register keeps only the implemented bits of what is written.
Implemented(value) == value - (value % PriorityStep)

\* init_platform gives the last level to PendSV and the one above to SysTick;
\* in the 8-bit register the levels end at 256.
SysTickPriority == 256 - 2 * PriorityStep
PendSVPriority == 256 - PriorityStep

\* BASEPRI = 0 masks nothing; otherwise it masks its own level and all below.
Masked(priority) ==
  /\ Implemented(basepri) # 0
  /\ priority >= Implemented(basepri)

SysTickMasked == Masked(SysTickPriority)
PendSVMasked == Masked(PendSVPriority)

WrongNoMask == basepri' = BASEPRI_UNMASK_ALL

disable_ctx_sw == basepri' = BASEPRI_MASK_PENDSV_SYSTICK
enable_ctx_sw == basepri' = BASEPRI_UNMASK_ALL

WrongNoSwitch == pendsv' = pendsv

\* context_switch only sets the pending bit: PendSV is taken when it is not
\* masked and no handler of a higher priority runs.
context_switch == pendsv' = TRUE

PlatformInit == basepri = BASEPRI_UNMASK_ALL /\ pendsv = FALSE

PlatformTypeOK ==
  /\ basepri \in {BASEPRI_UNMASK_ALL, BASEPRI_MASK_PENDSV_SYSTICK}
  /\ pendsv \in BOOLEAN
=============================================================================
