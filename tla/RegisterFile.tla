---------------------------- MODULE RegisterFile ----------------------------
(***************************************************************************)
(* The register file as its callers drive it: any sequence of calls of the *)
(* functions src/registers.h exports, on one register file, by one caller  *)
(* at a time (the program calls them under its lock).                      *)
(***************************************************************************)
EXTENDS Registers

CONSTANTS RegisterNumbers,   \* the register numbers callers pass
          ModeArgs,          \* the mode arguments callers pass, valid or not
          Status             \* the status words callers write

ASSUME ArgumentsAssumption == /\ RegisterNumbers \subseteq 0 .. 15
                              /\ ModeArgs \subseteq SUBSET ModeField
                              /\ Status \subseteq Psr

VARIABLES r,                 \* the table the program points to
          word,              \* the general register the last call returned, or zero
          psr                \* the status register it returned, or none of its bits

vars == <<r, word, psr>>

TypeOK == /\ r \in RegisterFileType
          /\ word \in Word
          /\ psr \in Psr

Init == r = registers_create /\ word = 0 /\ psr = {}

(* A call either returns a value or leaves a new table.                    *)
ReturnWord(v) == word' = v /\ psr' = {} /\ UNCHANGED r
ReturnPsr(s)  == psr' = s /\ word' = 0 /\ UNCHANGED r
Leave(table)  == r' = table /\ word' = 0 /\ psr' = {}

Read(reg, mode)         == ReturnWord(registers_read(r, reg, mode))
Write(reg, mode, value) == Leave(registers_write(r, reg, mode, value))
ReadCpsr                == ReturnPsr(registers_read_cpsr(r))
WriteCpsr(value)        == Leave(registers_write_cpsr(r, value))
ReadSpsr(mode)          == ReturnPsr(registers_read_spsr(r, mode))
WriteSpsr(mode, value)  == Leave(registers_write_spsr(r, mode, value))
AskSpsr                 == Leave(registers_current_mode_has_spsr(r))

Next == \/ \E reg \in RegisterNumbers, mode \in ModeArgs : Read(reg, mode)
        \/ \E reg \in RegisterNumbers, mode \in ModeArgs, value \in Word :
              Write(reg, mode, value)
        \/ ReadCpsr
        \/ \E value \in Status : WriteCpsr(value)
        \/ \E mode \in ModeArgs : ReadSpsr(mode)
        \/ \E mode \in ModeArgs, value \in Status : WriteSpsr(mode, value)
        \/ AskSpsr

Spec == Init /\ [][Next]_vars

-----------------------------------------------------------------------------
(* The refinement: where each of the 37 registers lives, name by name and  *)
(* without the index functions of the code.                                *)
BankName(mode) ==
    CASE mode \in {USR, SYS} -> "usr"
      [] mode = FIQ -> "fiq"
      [] mode = IRQ -> "irq"
      [] mode = SVC -> "svc"
      [] mode = ABT -> "abt"
      [] mode = UND -> "und"
      [] OTHER -> "none"

PsrMode(s) == s \cap ModeField

Names == ({"usr"} \X (0 .. 15)) \cup ({"fiq"} \X (8 .. 14))
           \cup ({"irq", "svc", "abt", "und"} \X {13, 14})

FirstSlot == [usr |-> 0, svc |-> 16, abt |-> 32, und |-> 48, irq |-> 64, fiq |-> 80]
SpsrSlot  == [fiq |-> 0, irq |-> 1, svc |-> 2, abt |-> 3, und |-> 4]

SlotOf(g) == FirstSlot[g[1]] + g[2]

Banked == INSTANCE BankedRegisters WITH
            ModeOf  <- PsrMode,
            BankOf  <- BankName,
            general <- [g \in Names |-> r.genreg[SlotOf(g)]],
            cpsr    <- r.CPSR,
            spsr    <- [b \in {"fiq", "irq", "svc", "abt", "und"} |-> r.rstat[SpsrSlot[b]]]

(* Each call of the code is the banked file's call of the same number,     *)
(* mode and value.                                                         *)
SameCall ==
    /\ \A reg \in RegisterNumbers, mode \in ModeArgs :
          /\ Read(reg, mode) => Banked!Read(reg, mode)
          /\ \A value \in Word : Write(reg, mode, value) => Banked!Write(reg, mode, value)
    /\ ReadCpsr => Banked!ReadCpsr
    /\ \A value \in Status : WriteCpsr(value) => Banked!WriteCpsr(value)
    /\ \A mode \in ModeArgs :
          /\ ReadSpsr(mode) => Banked!ReadSpsr(mode)
          /\ \A value \in Status : WriteSpsr(mode, value) => Banked!WriteSpsr(mode, value)
    /\ AskSpsr => Banked!AskSpsr

(* The table of 96 slots and 5 SPSRs behaves like 31 general registers and *)
(* 6 status registers that never alias: a write through one mode is seen   *)
(* through exactly the modes that share that register, a mode field that   *)
(* names no mode reads zero and drops what it writes (src/registers.c      *)
(* lines 40-84), whatever calls came before.  Each call is the banked      *)
(* file's call with the same number, mode and value, not merely some call  *)
(* of it.                                                                  *)
ImplementsBanks == Banked!Init /\ [][UNCHANGED vars \/ SameCall]_vars
=============================================================================
