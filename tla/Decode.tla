------------------------------- MODULE Decode -------------------------------
(***************************************************************************)
(* Which code an instruction reaches: the switch of                        *)
(* arm_execute_instruction (src/arm_instruction.c), and the tests by which *)
(* each handler looks at the same bits again (src/arm_branch_other.c,      *)
(* src/arm_load_store.c, src/arm_data_processing.c).                       *)
(*                                                                         *)
(* An instruction is the fields those tests read: class is bits 27..25, op *)
(* bits 24..20, high bits 11..8 and low bits 7..4; passes says whether its *)
(* condition holds.                                                        *)
(***************************************************************************)
EXTENDS Integers

CONSTANT Highs               \* values of bits 11..8

ASSUME DecodeAssumption == Highs \subseteq 0 .. 15

Instruction == [class : 0 .. 7, op : 0 .. 31, high : Highs, low : 0 .. 15, passes : BOOLEAN]

VARIABLES ins,               \* the instruction fetched
          handler,           \* the function it was given to, or "none"
          form,              \* the branch taken inside it, or "none"
          address,           \* the local of arm_load_store when the memory is
                             \* accessed: "set" or "unset"; "none" with no access
          ended              \* what became of it, "no" before

decoding == <<ins, handler, form, address, ended>>

(* The bit of a weight, 1 for the lowest.                                  *)
Bit(field, weight) == (field \div weight) % 2

(* The bits by their place in the instruction.                             *)
Bit20(i) == Bit(i.op, 1)
Bit21(i) == Bit(i.op, 2)
Bit24(i) == Bit(i.op, 16)
Bit25(i) == Bit(i.class, 1)
Bits21_20(i) == i.op % 4
Bits22_21(i) == (i.op \div 2) % 4
Bits24_21(i) == i.op \div 2
Bits24_23(i) == i.op \div 8
Bit4(i)  == Bit(i.low, 1)
Bit5(i)  == Bit(i.low, 2)
Bit6(i)  == Bit(i.low, 4)
Bit7(i)  == Bit(i.low, 8)
Bits6_4(i)  == i.low % 8
Bits11_4(i) == 16 * i.high + i.low

-----------------------------------------------------------------------------
(* The switch.  An instruction it gives to nobody is undefined.            *)
\* mutant: bit 4 is not looked at in class 011
MutantHandlerOf(i) ==
    CASE i.class = 0 /\ Bit4(i) = 1 /\ Bit7(i) = 1 -> "arm_load_store"
      [] i.class = 0 /\ ~(Bit4(i) = 1 /\ Bit7(i) = 1) /\ Bits24_23(i) = 2 /\ Bit20(i) = 0
            -> "arm_miscellaneous"
      [] i.class = 0 /\ ~(Bit4(i) = 1 /\ Bit7(i) = 1) /\ ~(Bits24_23(i) = 2 /\ Bit20(i) = 0)
            -> "arm_data_processing_shift"
      [] i.class = 1 -> "arm_data_processing_immediate_msr"
      [] i.class \in {2, 3} -> "arm_load_store"
      [] i.class = 4 -> "arm_load_store_multiple"
      [] i.class = 5 -> "arm_branch"
      [] i.class = 6 -> "arm_coprocessor_load_store"
      [] i.class = 7 -> "arm_coprocessor_others_swi"

HandlerOf(i) ==
    CASE i.class = 0 /\ Bit4(i) = 1 /\ Bit7(i) = 1 -> "arm_load_store"
      [] i.class = 0 /\ ~(Bit4(i) = 1 /\ Bit7(i) = 1) /\ Bits24_23(i) = 2 /\ Bit20(i) = 0
            -> "arm_miscellaneous"
      [] i.class = 0 /\ ~(Bit4(i) = 1 /\ Bit7(i) = 1) /\ ~(Bits24_23(i) = 2 /\ Bit20(i) = 0)
            -> "arm_data_processing_shift"
      [] i.class = 1 -> "arm_data_processing_immediate_msr"
      [] i.class = 2 \/ (i.class = 3 /\ Bit4(i) = 0) -> "arm_load_store"
      [] i.class = 3 /\ Bit4(i) = 1 -> "none"
      [] i.class = 4 -> "arm_load_store_multiple"
      [] i.class = 5 -> "arm_branch"
      [] i.class = 6 -> "arm_coprocessor_load_store"
      [] i.class = 7 -> "arm_coprocessor_others_swi"

(* The tests of the handlers.  "unmatched" is the way through a chain of   *)
(* tests none of which holds, "refused" a return before anything is done.  *)
LoadStoreForm(i) ==
    CASE i.class = 2 -> "immediate"
      [] i.class = 3 /\ Bits11_4(i) = 0 -> "register"
      [] i.class = 3 /\ Bits11_4(i) # 0 /\ Bit4(i) = 0 -> "scaled"
      [] i.class = 0 /\ Bit7(i) = 1 /\ Bit4(i) = 1 -> "half"
      [] OTHER -> "unmatched"

ShiftForm(i) ==
    CASE Bits6_4(i) \in {0, 2, 4, 6} -> "by immediate"
      [] i.low \in {1, 3, 5, 7}      -> "by register"
      [] OTHER                       -> "unmatched"

(* BR_MASK, SWI_MASK and MRS_MASK with their codes.                        *)
BranchForm(i) == IF Bit(i.class, 4) = 1 /\ Bit25(i) = 1 THEN "branch" ELSE "refused"
SwiForm(i)    == IF i.class = 7 /\ Bit24(i) = 1 THEN "swi" ELSE "refused"
MrsForm(i)    == IF Bit24(i) = 1 THEN "mrs" ELSE "refused"

ImmediateForm(i) == IF Bits24_23(i) = 2 /\ Bits21_20(i) = 2 THEN "msr" ELSE "rotated"

FormOf(i, h) ==
    CASE h = "arm_load_store"                    -> LoadStoreForm(i)
      [] h = "arm_data_processing_shift"         -> ShiftForm(i)
      [] h = "arm_branch"                        -> BranchForm(i)
      [] h = "arm_coprocessor_others_swi"        -> SwiForm(i)
      [] h = "arm_miscellaneous"                 -> MrsForm(i)
      [] h = "arm_data_processing_immediate_msr" -> ImmediateForm(i)
      [] h = "arm_load_store_multiple"           -> "block"
      [] h = "arm_coprocessor_load_store"        -> "refused"

(* The branches of the forms of arm_load_store that set address, by P and  *)
(* W, or for a half word P and bits 22..21.                                *)
SetsAddress(i, f) ==
    CASE f \in {"immediate", "register", "scaled"} ->
            <<Bit24(i), Bit21(i)>> \in {<<1, 0>>, <<1, 1>>, <<0, 0>>}
      [] f = "half" -> \/ Bit24(i) = 1 /\ Bits22_21(i) \in {2, 0, 3, 1}
                       \/ Bit24(i) = 0 /\ Bits22_21(i) \in {2, 0}
      [] OTHER -> FALSE

(* A form may still refuse: process_load_store_instruction what sets no    *)
(* address, and the half words what is neither STRH nor LDRH.              *)
Refuses(i, f) ==
    \/ f = "refused"
    \/ f \in {"immediate", "register"} /\ ~SetsAddress(i, f)
    \/ f = "half" /\ ~(Bit6(i) = 0 /\ Bit5(i) = 1)

AddressOf(i, h, f) ==
    IF h # "arm_load_store" \/ Refuses(i, f) THEN "none"
    ELSE IF SetsAddress(i, f) THEN "set" ELSE "unset"

-----------------------------------------------------------------------------
Blank == [class |-> 0, op |-> 0, high |-> 0, low |-> 0, passes |-> FALSE]

DecodeInit == /\ ins = Blank /\ handler = "none" /\ form = "none" /\ address = "none"
              /\ ended = "fetch"

Fetch(i) == /\ ins' = i /\ ended' = "no"
            /\ UNCHANGED <<handler, form, address>>

ConditionFails == /\ ended = "no" /\ handler = "none" /\ ~ins.passes
                  /\ ended' = "skipped"
                  /\ UNCHANGED <<ins, handler, form, address>>

Dispatch == /\ ended = "no" /\ handler = "none" /\ ins.passes
            /\ handler' = HandlerOf(ins)
            /\ ended' = IF HandlerOf(ins) = "none" THEN "undefined" ELSE "no"
            /\ UNCHANGED <<ins, form, address>>

Handle == /\ ended = "no" /\ handler # "none"
          /\ form' = FormOf(ins, handler)
          /\ address' = AddressOf(ins, handler, form')
          /\ ended' = IF Refuses(ins, form') THEN "undefined" ELSE "executed"
          /\ UNCHANGED <<ins, handler>>

Over == /\ ended \in {"skipped", "undefined", "executed"}
        /\ ins' = Blank /\ handler' = "none" /\ form' = "none" /\ address' = "none"
        /\ ended' = "fetch"

DecodeNext == \/ ended = "fetch" /\ \E i \in Instruction : Fetch(i)
              \/ ConditionFails \/ Dispatch \/ Handle \/ Over

DecodeSpec == DecodeInit /\ [][DecodeNext]_decoding

-----------------------------------------------------------------------------
(* In the class 000, bits 7 and 4 are decided on before the operation.     *)
Extension(i) == i.class = 0 /\ Bit7(i) = 1 /\ Bit4(i) = 1

(* P is 0 and W is 1.                                                      *)
PostIndexedW(i) == Bit24(i) = 0 /\ Bit21(i) = 1

(* What data_processing is given as TST, TEQ, CMP or CMN.                  *)
Compares(i, f) == /\ f \in {"by immediate", "by register", "rotated"}
                  /\ Bits24_21(i) \in 8 .. 11

(* An instruction given to a handler is one that a branch of the handler   *)
(* is for, though the switch and the handlers test the same bits apart:    *)
(* loads and stores have one of four forms and data processing one of      *)
(* eight shifts, and the handlers of branches and MRS refuse nothing.      *)
(* Not so inside the branches.  The memory is accessed with the address    *)
(* never set by exactly the scaled and the half word forms that are        *)
(* post-indexed with W, which the immediate and register forms refuse; and *)
(* a comparison is executed without S, setting nothing, for exactly the    *)
(* encodings of TST and CMP with an immediate, which the switch leaves to  *)
(* the data processing (src/arm_instruction.c lines 97-139,                *)
(* src/arm_load_store.c 104-201, src/arm_data_processing.c 235-343 and     *)
(* 445-448, src/arm_branch_other.c 54 and 95).                             *)
HandlersKnow ==
    /\ form # "unmatched"
    /\ handler \in {"arm_branch", "arm_miscellaneous"} => form # "refused"
    /\ ended = "executed" =>
          /\ address = "unset" <=> PostIndexedW(ins) /\ form \in {"scaled", "half"}
          /\ address # "none" <=> ins.class \in {2, 3} \/ Extension(ins)
          /\ Compares(ins, form) /\ Bit20(ins) = 0 <=> ins.class = 1 /\ ins.op \in {16, 20}
=============================================================================
