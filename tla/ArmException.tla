---------------------------- MODULE ArmException ----------------------------
(***************************************************************************)
(* arm_exception of src/arm_exception.c: what the processor does when an   *)
(* instruction or the outside world raises an exception.  An outcome is    *)
(* the register file left behind and the value the function returns.       *)
(***************************************************************************)
EXTENDS ArmCore

SUCCESSFULLY_DECODED  == 0
RESET                 == 1
DATA_ABORT            == 2
FAST_INTERRUPT        == 3
INTERRUPT             == 4
IMPRECISE_ABORT       == 5
PREFETCH_ABORT        == 6
UNDEFINED_INSTRUCTION == 7
SOFTWARE_INTERRUPT    == 8
END_SIMULATION        == 9

Result == SUCCESSFULLY_DECODED .. END_SIMULATION

Outcome(p, result) == [reg |-> p, result |-> result]

(* 0x1d3 is supervisor mode with A, I and F set.  A fast interrupt and a   *)
(* reset keep F; the others clear it.                                      *)
AllMasked == SVC \cup {6, 7, 8}

EntryCpsr(exception) ==
    IF exception \in {RESET, FAST_INTERRUPT} THEN AllMasked ELSE AllMasked \ {6}

(* The exceptions that save where they came from, and where they go.       *)
Saving == {DATA_ABORT, FAST_INTERRUPT, INTERRUPT, PREFETCH_ABORT, UNDEFINED_INSTRUCTION}

ReturnOffset(exception) ==
    CASE exception \in {FAST_INTERRUPT, INTERRUPT, PREFETCH_ABORT} -> 4
      [] exception = DATA_ABORT -> 8
      [] exception = UNDEFINED_INSTRUCTION -> 0

Vector(exception) ==
    CASE exception = RESET                 -> 0
      [] exception = UNDEFINED_INSTRUCTION -> 4
      [] exception = PREFETCH_ABORT        -> 12
      [] exception = DATA_ABORT            -> 16
      [] exception = INTERRUPT             -> 24
      [] exception = FAST_INTERRUPT        -> 28

restore_pc(p, exception) == (arm_read_register(p, 15) + ReturnOffset(exception)) % WordMod

(* The link register and the SPSR are written first, while the interrupted *)
(* mode still selects the bank they land in.                               *)
SaveContext(p, exception) ==
    LET linked == arm_write_register(p, 14, restore_pc(p, exception))
    IN  arm_write_spsr(linked, linked.CPSR)

EnterHandler(p, exception) ==
    arm_write_register(registers_write_cpsr(p, EntryCpsr(exception)), 15, Vector(exception))

(* The number of a software interrupt decides: 0x123456 ends the           *)
(* simulation, 1 prints r0, and any other number is left to the caller.    *)
SwiNumber == {"0x123456", "1", "other"}

SwiResult(number) == CASE number = "0x123456" -> END_SIMULATION
                       [] number = "1"        -> SUCCESSFULLY_DECODED
                       [] number = "other"    -> SOFTWARE_INTERRUPT

arm_exception(p, exception, number) ==
    CASE exception = SOFTWARE_INTERRUPT -> Outcome(p, SwiResult(number))
      [] exception = RESET              -> Outcome(EnterHandler(p, RESET), RESET)
      [] exception \in Saving           ->
            Outcome(EnterHandler(SaveContext(p, exception), exception), exception)
      [] OTHER                          -> Outcome(p, exception)
=============================================================================
