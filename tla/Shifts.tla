------------------------------- MODULE Shifts -------------------------------
(***************************************************************************)
(* The second operand of an instruction, and the carry it leaves: the      *)
(* decoding functions of src/arm_data_processing.c, shift_operation of     *)
(* src/arm_load_store.c, asr and ror of src/util.c.                        *)
(*                                                                         *)
(* Words are numbers modulo Modulus; Width is 32 in the program.  A shift  *)
(* amount in the instruction is below Width; one in a register is its low  *)
(* byte, that is below 8 * Width.                                          *)
(***************************************************************************)
EXTENDS Integers

CONSTANT Width               \* bits in a word

(* The powers of two are positive numbers and each is twice the one        *)
(* before: the provers have no theory of ^ and need it said.               *)
ShiftsAssumption == /\ Width \in Nat /\ Width % 8 = 0 /\ Width > 0
                    /\ 2 ^ 0 = 1
                    /\ \A n \in 0 .. Width : 2 ^ n \in Nat /\ 2 ^ n > 0
                    /\ \A n \in 1 .. Width : 2 ^ n = 2 * 2 ^ (n - 1)

Modulus   == 2 ^ Width
Number    == 0 .. (Modulus - 1)
Immediate == 0 .. (Width - 1)          \* bits 11..7 of the instruction
LowByte   == 0 .. (8 * Width - 1)      \* Rs_valueLB
Kinds     == {"LSL", "LSR", "ASR", "ROR"}

get_bit(v, i) == (v \div (2 ^ i)) % 2

lsl(v, n) == (v * (2 ^ n)) % Modulus
lsr(v, n) == v \div (2 ^ n)

(* asr and ror take an amount of 1 to Width - 1; ror is also called with 0 *)
(* by the rotated immediates, where the shift by Width it then makes gives *)
(* 0 or v, and either way v.                                               *)
asr(v, n) == lsr(v, n) + (IF get_bit(v, Width - 1) = 1 THEN Modulus - 2 ^ (Width - n) ELSE 0)

ror(v, n) == IF n = 0 THEN v ELSE lsr(v, n) + lsl(v, Width - n)

Operand(v, c) == [operand |-> v, carry |-> c]
SignFill(v)   == IF get_bit(v, Width - 1) = 0 THEN Operand(0, 0) ELSE Operand(Modulus - 1, 1)

(* Shift by an immediate; zero stands for something else in three kinds.   *)
ByImmediate(kind, v, n, c) ==
    CASE kind = "LSL" /\ n = 0 -> Operand(v, c)
      [] kind = "LSR" /\ n = 0 -> Operand(0, get_bit(v, Width - 1))
      [] kind = "ASR" /\ n = 0 -> SignFill(v)
      [] kind = "ROR" /\ n = 0 -> Operand(c * 2 ^ (Width - 1) + lsr(v, 1), get_bit(v, 0))
      [] kind = "LSL" /\ n > 0 -> Operand(lsl(v, n), get_bit(v, Width - n))
      [] kind = "LSR" /\ n > 0 -> Operand(lsr(v, n), get_bit(v, n - 1))
      [] kind = "ASR" /\ n > 0 -> Operand(asr(v, n), get_bit(v, n - 1))
      [] kind = "ROR" /\ n > 0 -> Operand(ror(v, n), get_bit(v, n - 1))

(* Shift by the low byte of a register.                                    *)
ByRegister(kind, v, n, c) ==
    CASE n = 0 -> Operand(v, c)
      [] n \in 1 .. (Width - 1) /\ kind = "LSL" -> Operand(lsl(v, n), get_bit(v, Width - n))
      [] n \in 1 .. (Width - 1) /\ kind = "LSR" -> Operand(lsr(v, n), get_bit(v, n - 1))
      [] n \in 1 .. (Width - 1) /\ kind = "ASR" -> Operand(asr(v, n), get_bit(v, n - 1))
      [] n = Width /\ kind = "LSL" -> Operand(0, get_bit(v, 0))
      [] n = Width /\ kind = "LSR" -> Operand(0, get_bit(v, Width - 1))
      [] n > Width /\ kind \in {"LSL", "LSR"} -> Operand(0, 0)
      [] n >= Width /\ kind = "ASR" -> SignFill(v)
      [] n > 0 /\ kind = "ROR" ->
            LET m == n % Width
            IN  IF m = 0 THEN Operand(v, get_bit(v, Width - 1))
                         ELSE Operand(ror(v, m), get_bit(v, m - 1))

(* The rotated immediates of arm_data_processing_immediate: a byte, a      *)
(* quarter of the word, and half the distance.                             *)
ImmediateByte == 0 .. (2 ^ (Width \div 4) - 1)

RotatedByte(byte, rotate_imm, c) ==
    LET operand == ror(byte, 2 * rotate_imm)
    IN  Operand(operand, IF rotate_imm = 0 THEN c ELSE get_bit(operand, Width - 1))

\* mutant: ROR by zero is no rotation, instead of one with extend
MutantShiftOperation(shift, v, n, c) ==
    CASE shift = "LSL" -> lsl(v, n)
      [] shift = "LSR" -> IF n = 0 THEN 0 ELSE lsr(v, n)
      [] shift = "ASR" -> IF n = 0 THEN SignFill(v).operand ELSE asr(v, n)
      [] shift = "ROR" -> ror(v, n)

(* The offset of a load or store with a scaled register.                   *)
shift_operation(shift, v, n, c) ==
    CASE shift = "LSL" -> lsl(v, n)
      [] shift = "LSR" -> IF n = 0 THEN 0 ELSE lsr(v, n)
      [] shift = "ASR" -> IF n = 0 THEN get_bit(v, Width - 1) * (Modulus - 1) ELSE asr(v, n)
      [] shift = "ROR" -> IF n = 0 THEN c * 2 ^ (Width - 1) + lsr(v, 1) ELSE ror(v, n)
=============================================================================
