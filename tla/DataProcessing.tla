--------------------------- MODULE DataProcessing ---------------------------
(***************************************************************************)
(* What data_processing of src/arm_data_processing.c computes: the result  *)
(* of the sixteen operations and the flags they leave.  Which register the *)
(* result goes to is ArmCpu's; the second operand and its carry come from  *)
(* the shifter (module Shifter).                                           *)
(*                                                                         *)
(* Words are numbers modulo Modulus, 2^32 in the program; SignBit is the   *)
(* value of the highest bit.  The C code computes on int, so the carry     *)
(* helpers compare signed numbers.                                         *)
(***************************************************************************)
EXTENDS Integers, Conditions

CONSTANTS Width,             \* bits in a word
          SignBit            \* 2^(Width - 1)

(* The provers have no theory of ^: that the powers of two are positive    *)
(* and each is twice the one before is said here.                          *)
ASSUME WidthAssumption == /\ Width \in Nat /\ Width > 1
                          /\ SignBit \in Nat /\ SignBit > 1
                          /\ SignBit = 2 ^ (Width - 1)
                          /\ 2 ^ 0 = 1
                          /\ \A n \in 0 .. (Width - 1) : 2 ^ n \in Nat /\ 2 ^ n > 0
                          /\ \A n \in 1 .. (Width - 1) : 2 ^ n = 2 * 2 ^ (n - 1)

Modulus == 2 * SignBit
Number  == 0 .. (Modulus - 1)
Opcode  == {"AND", "EOR", "SUB", "RSB", "ADD", "ADC", "SBC", "RSC",
            "TST", "TEQ", "CMP", "CMN", "ORR", "MOV", "BIC", "MVN"}

(* A word, read as an int, and an int cut to a word.                       *)
AsInt(w) == IF w >= SignBit THEN w - Modulus ELSE w
Wrap(v)  == IF v < 0 THEN v + Modulus ELSE IF v >= Modulus THEN v - Modulus ELSE v

FitsInt(v) == v \in (-SignBit) .. (SignBit - 1)

\* mutant: the sum is not cut to a word
MutantAdd(a, b) == a + b

Add(a, b) == Wrap(a + b)
Sub(a, b) == Wrap(a - b)
Digit(c)  == IF c THEN 1 ELSE 0

add_overflow(a, b) == ~FitsInt(AsInt(a) + AsInt(b))
sub_overflow(a, b) == ~FitsInt(AsInt(a) - AsInt(b))
add_carry(a, b)    == add_overflow(a, b) \/ AsInt(Add(a, b)) < AsInt(a)
sub_carry(a, b)    == sub_overflow(a, b) \/ AsInt(Sub(a, b)) > AsInt(a)

(* The bitwise operations.                                                 *)
Bits(w)     == {i \in 0 .. (Width - 1) : (w \div (2 ^ i)) % 2 = 1}
WordOf(set) == CHOOSE w \in Number : Bits(w) = set

And(a, b) == WordOf(Bits(a) \cap Bits(b))
Or(a, b)  == WordOf(Bits(a) \cup Bits(b))
Eor(a, b) == WordOf((Bits(a) \ Bits(b)) \cup (Bits(b) \ Bits(a)))
Not(a)    == Modulus - 1 - a

Outcome(v, c, o) == [result |-> v, C |-> c, V |-> o]

(* A sum or difference of two words.                                       *)
SumOf(a, b)        == Outcome(Add(a, b), add_carry(a, b), add_overflow(a, b))
DifferenceOf(a, b) == Outcome(Sub(a, b), sub_carry(a, b), sub_overflow(a, b))

(* A sum of two words and the carry, in two halves.  The new carry is      *)
(* stored before the overflow is computed, and computing the overflow      *)
(* stores the result once more, with the new carry in place of the old     *)
(* one; only when the first half overflows is the second not computed      *)
(* again.                                                                  *)
SumWithCarry(a, b, c) ==
    LET tmp   == Add(a, b)
        carry == add_carry(a, b) \/ add_carry(tmp, Digit(c))
        twice == ~add_overflow(a, b)
    IN  Outcome(Add(tmp, Digit(IF twice THEN carry ELSE c)), carry,
                twice => add_overflow(tmp, Digit(carry)))

(* And a difference, less the complement of the carry.                     *)
DifferenceWithCarry(a, b, c) ==
    LET tmp   == Sub(a, b)
        carry == sub_carry(a, b) \/ sub_carry(tmp, Digit(~c))
        twice == ~sub_overflow(a, b)
    IN  Outcome(Sub(tmp, Digit(~(IF twice THEN carry ELSE c))), carry,
                twice => sub_overflow(tmp, Digit(~carry)))

\* mutant: the operands of RSB and RSC are not reversed
MutantCompute(opcode, a, b, shifterCarry, f) ==
    CASE opcode \in {"SUB", "CMP", "RSB"} -> DifferenceOf(a, b)
      [] OTHER -> Outcome(b, shifterCarry, f.V)

(* The operations; f holds the flags before, shifterCarry the carry of the *)
(* shifter, which the logical operations pass on.                          *)
Compute(opcode, a, b, shifterCarry, f) ==
    CASE opcode \in {"SUB", "CMP"} -> DifferenceOf(a, b)
      [] opcode = "RSB"            -> DifferenceOf(b, a)
      [] opcode \in {"ADD", "CMN"} -> SumOf(a, b)
      [] opcode = "ADC"            -> SumWithCarry(a, b, f.C)
      [] opcode = "SBC"            -> DifferenceWithCarry(a, b, f.C)
      [] opcode = "RSC"            -> DifferenceWithCarry(b, a, f.C)
      [] opcode \in {"AND", "TST"} -> Outcome(And(a, b), shifterCarry, f.V)
      [] opcode \in {"EOR", "TEQ"} -> Outcome(Eor(a, b), shifterCarry, f.V)
      [] opcode = "ORR"            -> Outcome(Or(a, b), shifterCarry, f.V)
      [] opcode = "MOV"            -> Outcome(b, shifterCarry, f.V)
      [] opcode = "BIC"            -> Outcome(And(a, Not(b)), shifterCarry, f.V)
      [] opcode = "MVN"            -> Outcome(Not(b), shifterCarry, f.V)

FlagsOf(o) == [N |-> o.result >= SignBit, Z |-> o.result = 0, C |-> o.C, V |-> o.V]

-----------------------------------------------------------------------------
VARIABLES flags,             \* N, Z, C and V of the CPSR
          phase,             \* "idle", "called" (data_processing entered), "computed"
          args,              \* the arguments of the call
          carry,             \* the C flag the call found
          result             \* the local of that name, once computed

vars == <<flags, phase, args, carry, result>>

Arguments == [opcode : Opcode, S : BOOLEAN, a : Number, b : Number, shifterCarry : BOOLEAN]

\* what the variables hold between calls, when nothing reads them
NoArguments == [opcode |-> "MVN", S |-> FALSE, a |-> 0, b |-> 0, shifterCarry |-> FALSE]

TypeOK == /\ flags \in Flags
          /\ phase \in {"idle", "called", "computed"}
          /\ args \in Arguments
          /\ carry \in BOOLEAN
          /\ result \in Number

Init == /\ flags = [N |-> FALSE, Z |-> FALSE, C |-> FALSE, V |-> FALSE]
        /\ phase = "idle"
        /\ args = NoArguments
        /\ carry = FALSE
        /\ result = 0

(* One of the decoding functions calls data_processing.                    *)
Call(arguments) == /\ phase' = "called"
                   /\ args' = arguments
                   /\ carry' = flags.C
                   /\ UNCHANGED <<flags, result>>

data_processing ==
    LET outcome == Compute(args.opcode, args.a, args.b, args.shifterCarry, flags)
    IN  /\ phase = "called"
        /\ phase' = "computed"
        /\ result' = outcome.result
        /\ flags' = IF args.S THEN FlagsOf(outcome) ELSE flags
        /\ UNCHANGED <<args, carry>>

Return == /\ phase = "computed"
          /\ phase' = "idle"
          /\ args' = NoArguments
          /\ carry' = FALSE
          /\ result' = 0
          /\ UNCHANGED flags

Next == \/ phase = "idle" /\ \E arguments \in Arguments : Call(arguments)
        \/ data_processing
        \/ Return

Spec == Init /\ [][Next]_vars

Computed(opcodes) == phase = "computed" /\ args.opcode \in opcodes

-----------------------------------------------------------------------------
(* The signed conditions decide as the manual has it: after CMP a, b the   *)
(* next instruction with EQ, NE, GE, LT, GT or LE is executed exactly when *)
(* a stands in that relation to b as int, overflow or not                  *)
(* (src/arm_data_processing.c lines 153-158, src/arm_instruction.c 66-77;  *)
(* Examples/prog4.s: "if r6 >= r5").                                       *)
SignedConditions ==
    Computed({"CMP"}) /\ args.S =>
        LET a == AsInt(args.a)
            b == AsInt(args.b)
        IN  /\ instruction_cond(EQ, flags) <=> a = b
            /\ instruction_cond(NE, flags) <=> a # b
            /\ instruction_cond(GE, flags) <=> a >= b
            /\ instruction_cond(LT, flags) <=> a < b
            /\ instruction_cond(GT, flags) <=> a > b
            /\ instruction_cond(LE, flags) <=> a <= b

(* The exact integer an operation stands for, when it is a sum or a        *)
(* difference; carry is the flag it found.                                 *)
WithCarry == {"ADC", "SBC", "RSC"}

Exact == CASE args.opcode \in {"SUB", "CMP"} -> AsInt(args.a) - AsInt(args.b)
           [] args.opcode = "RSB"            -> AsInt(args.b) - AsInt(args.a)
           [] args.opcode \in {"ADD", "CMN"} -> AsInt(args.a) + AsInt(args.b)
           [] args.opcode = "ADC" -> AsInt(args.a) + AsInt(args.b) + Digit(carry)
           [] args.opcode = "SBC" -> AsInt(args.a) - AsInt(args.b) - Digit(~carry)
           [] args.opcode = "RSC" -> AsInt(args.b) - AsInt(args.a) - Digit(~carry)

(* A sum or a difference is right modulo the word, and V says exactly when *)
(* it is not the integer it stands for; N is then the opposite of its      *)
(* sign.  With a carry only the result is right, and only when the carry   *)
(* it leaves is the one it found: the result is stored once more with the  *)
(* new one in place of the old (src/arm_data_processing.c 98-141, 153-163, *)
(* 187-188; Examples/dtprcs2.s line 23 has "R8 = R7 + R4 + carry").        *)
ArithmeticIsExact ==
    /\ Computed({"SUB", "CMP", "RSB", "ADD", "CMN"}) =>
          /\ (AsInt(result) - Exact) % Modulus = 0
          /\ args.S => /\ flags.V <=> AsInt(result) # Exact
                       /\ flags.Z <=> result = 0
                       /\ (flags.N # flags.V) <=> Exact < 0
    /\ (Computed(WithCarry) /\ args.S /\ flags.C = carry) =>
          (AsInt(result) - Exact) % Modulus = 0
=============================================================================
