------------------------------- MODULE ArmCore -------------------------------
(***************************************************************************)
(* How the processor reaches its registers (src/arm_core.c) and how it     *)
(* takes an exception (src/arm_exception.c).                               *)
(*                                                                         *)
(* p is the register file of the core; the memory it points to is modelled *)
(* apart, so a loaded word is an argument of whoever loads it.  Words are  *)
(* numbers modulo WordMod, 2^32 in the program.                            *)
(***************************************************************************)
EXTENDS Registers

CONSTANT WordMod

ASSUME WordAssumption == /\ WordMod \in Nat
                         /\ WordMod >= 32             \* every vector is a word
                         /\ WordMod % 4 = 0
                         /\ Word = 0 .. (WordMod - 1)

(* Reading the PC gives it four bytes ahead, with bit 1 cleared.           *)
PcAhead(pc) == LET ahead == (pc + 4) % WordMod
               IN  IF ahead % 4 \in {2, 3} THEN ahead - 2 ELSE ahead

arm_read_register_internal(p, reg, mode) ==
    IF reg = 15 THEN PcAhead(registers_read(p, 15, mode)) ELSE registers_read(p, reg, mode)

arm_read_register(p, reg) == arm_read_register_internal(p, reg, registers_get_mode(p))

arm_write_register(p, reg, value) == registers_write(p, reg, registers_get_mode(p), value)

arm_write_usr_register(p, reg, value) == registers_write(p, reg, USR, value)

arm_read_spsr(p) == registers_read_spsr(p, registers_get_mode(p))

arm_write_spsr(p, value) == registers_write_spsr(p, registers_get_mode(p), value)

arm_pc(p) == registers_read(p, 15, registers_get_mode(p))

(* The register side of a fetch: the PC moves to the next instruction.     *)
arm_fetch(p) == arm_write_register(p, 15, (arm_pc(p) + 4) % WordMod)
=============================================================================
