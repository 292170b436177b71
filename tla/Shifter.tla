------------------------------ MODULE Shifter ------------------------------
(***************************************************************************)
(* Every instruction that shifts an operand, one at a time: the operand    *)
(* and the carry that arm_data_processing_shift and                        *)
(* arm_data_processing_immediate pass on, and what shift_operation of      *)
(* src/arm_load_store.c makes of the same fields.                          *)
(***************************************************************************)
EXTENDS Shifts

CONSTANTS ShiftedValues,     \* the values a shifted register may hold
          OwnAddresses       \* where the instruction may stand

ASSUME ShifterAssumption ==
    /\ ShiftsAssumption
    /\ ShiftedValues \subseteq Number
    /\ OwnAddresses # {} /\ OwnAddresses \subseteq Nat
    /\ \A own \in OwnAddresses : own % 4 = 0 /\ own + 12 < Modulus

-----------------------------------------------------------------------------
VARIABLES stage,             \* "idle", "decoded", "undefined"
          fields,            \* the instruction's fields and what its registers hold
          shifter,           \* shifter_operand and shifter_carry_out
          index              \* what shift_operation makes of the same fields

shifting == <<stage, fields, shifter, index>>

Roles == {"none", "Rm", "Rn", "Rs", "Rd"}      \* which of the registers is r15

(* form is how the amount is given; value is what Rm holds when it is not  *)
(* r15; own is the address of the instruction.                             *)
ShiftInstructions ==
    [form : {"immediate"}, kind : Kinds, value : ShiftedValues, amount : Immediate, C : {0, 1},
     r15 : {"none", "Rm", "Rn", "Rd"}, own : OwnAddresses]
      \cup
    [form : {"register"}, kind : Kinds, value : ShiftedValues, amount : LowByte, C : {0, 1},
     r15 : Roles, own : OwnAddresses]
      \cup
    [form : {"rotated"}, kind : {"ROR"}, value : ImmediateByte, amount : 0 .. (Width \div 2 - 1),
     C : {0, 1}, r15 : {"none"}, own : OwnAddresses]

NoShift == [form |-> "rotated", kind |-> "ROR", value |-> 0, amount |-> 0, C |-> 0, r15 |-> "none",
            own |-> CHOOSE own \in OwnAddresses : TRUE]

ShifterTypeOK == /\ stage \in {"idle", "decoded", "undefined"}
                 /\ fields \in ShiftInstructions
                 /\ shifter \in [operand : Number, carry : {0, 1}]
                 /\ index \in Number

ShifterInit == /\ stage = "idle"
               /\ fields = NoShift
               /\ shifter = Operand(0, 0)
               /\ index = 0

(* r15 as an instruction at own reads it (arm_read_register).              *)
PcRead(own) == own + 8

(* Rm_value, which a PC in the immediate forms replaces.                   *)
Rm_value(i) == IF i.form = "immediate" /\ i.r15 \in {"Rm", "Rn"} THEN PcRead(i.own) + 4
               ELSE i.value

Shifted(i) ==
    CASE i.form = "immediate" -> ByImmediate(i.kind, Rm_value(i), i.amount, i.C)
      [] i.form = "rotated"   -> RotatedByte(i.value, i.amount, i.C)
      [] i.form = "register"  -> ByRegister(i.kind, i.value, i.amount, i.C)

NamesPc(i) == i.form = "register" /\ i.r15 # "none"

(* UNDEFINED_INSTRUCTION: no operand, and data_processing is not called.   *)
RefusePc(i) == /\ NamesPc(i)
               /\ stage' = "undefined"
               /\ fields' = i
               /\ UNCHANGED <<shifter, index>>

Shift(i) == /\ ~NamesPc(i)
            /\ stage' = "decoded"
            /\ fields' = i
            /\ shifter' = Shifted(i)
            /\ index' = IF i.form = "immediate" /\ i.r15 = "none"
                        THEN shift_operation(i.kind, i.value, i.amount, i.C) ELSE 0

Used == /\ stage \in {"decoded", "undefined"}
        /\ stage' = "idle"
        /\ fields' = NoShift
        /\ shifter' = Operand(0, 0)
        /\ index' = 0

ShifterNext == \/ stage = "idle" /\ \E i \in ShiftInstructions : Shift(i) \/ RefusePc(i)
               \/ Used

ShifterSpec == ShifterInit /\ [][ShifterNext]_shifting

-----------------------------------------------------------------------------
(* One shift by one bit, and the bit that falls out.                       *)
OneBit(kind, s) ==
    LET v == s.operand
    IN  CASE kind = "LSL" -> Operand((2 * v) % Modulus, (2 * v) \div Modulus)
          [] kind = "LSR" -> Operand(v \div 2, v % 2)
          [] kind = "ASR" -> Operand((v \div 2) + (IF v >= Modulus \div 2 THEN Modulus \div 2 ELSE 0),
                                     v % 2)
          [] kind = "ROR" -> Operand((v \div 2) + (v % 2) * (Modulus \div 2), v % 2)
          [] kind = "RRX" -> Operand((v \div 2) + s.carry * (Modulus \div 2), v % 2)

(* n of them.                                                              *)
Times(kind, n, v, c) ==
    LET after[k \in 0 .. n] == IF k = 0 THEN Operand(v, c) ELSE OneBit(kind, after[k - 1])
    IN  after[n]

(* How many, of which kind: the manual's reading of the fields.            *)
Meant(i) ==
    CASE i.form = "register" \/ i.amount > 0 \/ i.kind = "LSL" -> <<i.kind, i.amount>>
      [] i.form = "immediate" /\ i.amount = 0 /\ i.kind = "ROR" -> <<"RRX", 1>>
      [] i.form = "immediate" /\ i.amount = 0 /\ i.kind \in {"LSR", "ASR"} -> <<i.kind, Width>>
      [] i.form = "rotated" /\ i.amount = 0 -> <<"ROR", 0>>

Distance(i) == IF i.form = "rotated" THEN 2 * i.amount ELSE Meant(i)[2]

(* Every form, at every amount on either side of the word's width, is that *)
(* many shifts by one bit, and the carry is the last bit that fell out;    *)
(* and the scaled register offset of a load or store, which other code     *)
(* computes, is the operand that the same fields make in a data-processing *)
(* instruction (src/arm_data_processing.c lines 234-360 and 381-386,       *)
(* src/arm_load_store.c lines 36-68).                                      *)
ShiftsAreIterated ==
    stage = "decoded" =>
        /\ shifter = Times(Meant(fields)[1], Distance(fields), Rm_value(fields), fields.C)
        /\ fields.form = "immediate" /\ fields.r15 = "none" => index = shifter.operand
=============================================================================
