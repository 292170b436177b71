------------------------------ MODULE Registers ------------------------------
(***************************************************************************)
(* The register file of src/registers.c: one table of 96 general-register  *)
(* slots shared by the seven processor modes, the CPSR, and a table of     *)
(* five SPSRs.                                                             *)
(*                                                                         *)
(* The operators are pure: each takes the record the C function takes by   *)
(* pointer and returns the record it leaves behind (Registers that only    *)
(* read return the value).  A general register holds a member of Word.  A  *)
(* status register is the set of the bit positions that hold a one, so a   *)
(* C mask is an intersection and 0x1d3 is {0, 1, 4, 6, 7, 8}.              *)
(***************************************************************************)
EXTENDS Integers

CONSTANT Word      \* what a general register can hold (uint32_t in the code)

ASSUME ZeroIsWord == 0 \in Word

Psr == SUBSET (0 .. 31)          \* CPSR and SPSR words, as sets of one-bits

(* The mode field of a status word and the seven modes.                    *)
ModeField == 0 .. 4
USR == {4}
FIQ == {0, 4}
IRQ == {1, 4}
SVC == {0, 1, 4}
ABT == {0, 1, 2, 4}
UND == {0, 1, 3, 4}
SYS == {0, 1, 2, 3, 4}

ExceptionModes  == {FIQ, IRQ, SVC, ABT, UND}
PrivilegedModes == ExceptionModes \cup {SYS}
Modes           == PrivilegedModes \cup {USR}

(* Where the registers of a bank start in the table of general registers.  *)
USR_INDEX == 0
SVC_INDEX == 16
ABT_INDEX == 32
UND_INDEX == 48
MutantIrqIndex == 80             \* mutant: r13 and r14 of IRQ kept where FIQ's are
IRQ_INDEX == 64
FIQ_INDEX == 80
Slot     == 0 .. 95              \* GREG_TABLE
StatSlot == 0 .. 4               \* STAT_REG

RegisterFileType == [genreg : [Slot -> Word], CPSR : Psr, rstat : [StatSlot -> Psr]]

\* mutant: the table is left as malloc gives it
MutantCreate == [genreg |-> [s \in Slot |-> -1],
                 CPSR   |-> {},
                 rstat  |-> [s \in StatSlot |-> {}]]

registers_create == [genreg |-> [s \in Slot |-> 0],
                     CPSR   |-> {},
                     rstat  |-> [s \in StatSlot |-> {}]]

registers_get_mode(r) == r.CPSR \cap ModeField

(* The banks r13 and r14 of a mode start at, -1 for a mode field that      *)
(* names no mode.                                                          *)
StackBank(mode) ==
    CASE mode \in {USR, SYS} -> USR_INDEX
      [] mode = SVC -> SVC_INDEX
      [] mode = ABT -> ABT_INDEX
      [] mode = UND -> UND_INDEX
      [] mode = IRQ -> IRQ_INDEX
      [] mode = FIQ -> FIQ_INDEX
      [] OTHER -> -1

mode_ind(reg, mode) ==
    CASE reg \in 0 .. 7   -> USR_INDEX
      [] reg \in 8 .. 12  -> IF mode = FIQ THEN FIQ_INDEX
                             ELSE IF mode \in Modes THEN USR_INDEX ELSE -1
      [] reg \in 13 .. 14 -> StackBank(mode)
      [] reg = 15         -> USR_INDEX
      [] OTHER            -> -1

(* A register number and a mode that have no slot read as zero, and what   *)
(* is written to them is dropped.                                          *)
registers_read(r, reg, mode) ==
    IF mode_ind(reg, mode) = -1 THEN 0 ELSE r.genreg[mode_ind(reg, mode) + reg]

registers_write(r, reg, mode, value) ==
    IF mode_ind(reg, mode) = -1 THEN r
    ELSE [r EXCEPT !.genreg[mode_ind(reg, mode) + reg] = value]

registers_read_cpsr(r) == r.CPSR

registers_write_cpsr(r, value) == [r EXCEPT !.CPSR = value]

(* The SPSR of each exception mode.                                        *)
StatIndex(mode) ==
    CASE mode = FIQ -> 0
      [] mode = IRQ -> 1
      [] mode = SVC -> 2
      [] mode = ABT -> 3
      [] mode = UND -> 4

registers_read_spsr(r, mode) ==
    IF mode \in ExceptionModes THEN r.rstat[StatIndex(mode)] ELSE {}

registers_write_spsr(r, mode, value) ==
    IF mode \in ExceptionModes THEN [r EXCEPT !.rstat[StatIndex(mode)] = value] ELSE r

(* Asking whether the current mode has an SPSR also stores the CPSR into   *)
(* that SPSR: the answer is HasSpsr, the table the question leaves behind  *)
(* is registers_current_mode_has_spsr.                                     *)
HasSpsr(r) == registers_get_mode(r) \in ExceptionModes

registers_current_mode_has_spsr(r) ==
    registers_write_spsr(r, registers_get_mode(r), r.CPSR)

registers_in_a_privileged_mode(r) == registers_get_mode(r) \in PrivilegedModes
=============================================================================
