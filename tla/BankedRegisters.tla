--------------------------- MODULE BankedRegisters ---------------------------
(***************************************************************************)
(* What the register file promises its callers: 31 general registers and 6 *)
(* status registers, each with its own content.  A general register is     *)
(* named by the bank that owns it and its number; which of them a program  *)
(* sees under a number depends on the mode alone.  There is no table and   *)
(* no index here: RegisterFile shows that the table of src/registers.c     *)
(* implements this.                                                        *)
(***************************************************************************)
EXTENDS Integers

CONSTANTS ModeOf(_),         \* the mode field of a status word
          BankOf(_)          \* the bank of a mode, "none" when it has none

VARIABLES general,           \* the 31 general registers
          cpsr,
          spsr,              \* one saved status word per exception bank
          word,              \* the general register the last call returned, or zero
          psr                \* the status word it returned, or none of its bits

ExceptionBanks == {"fiq", "irq", "svc", "abt", "und"}

Physical == ({"usr"} \X (0 .. 15))
              \cup ({"fiq"} \X (8 .. 14))
              \cup ({"irq", "svc", "abt", "und"} \X {13, 14})

(* The register a program in a mode of this bank names n, if it names one. *)
Visible(bank, n) ==
    IF n \in (0 .. 7) \cup {15} THEN {<<"usr", n>>}
    ELSE IF bank = "none" THEN {}
    ELSE IF <<bank, n>> \in Physical THEN {<<bank, n>>}
    ELSE {<<"usr", n>>}

Init == /\ general = [g \in Physical |-> 0]
        /\ cpsr = {}
        /\ spsr = [b \in ExceptionBanks |-> {}]
        /\ word = 0
        /\ psr = {}

Read(n, m) ==
    /\ word' = IF Visible(BankOf(m), n) = {} THEN 0
               ELSE general[CHOOSE g \in Visible(BankOf(m), n) : TRUE]
    /\ psr' = {}
    /\ UNCHANGED <<general, cpsr, spsr>>

Write(n, m, v) ==
    /\ word' = 0 /\ psr' = {}
    /\ general' = [g \in Physical |-> IF g \in Visible(BankOf(m), n) THEN v ELSE general[g]]
    /\ UNCHANGED <<cpsr, spsr>>

ReadCpsr == psr' = cpsr /\ word' = 0 /\ UNCHANGED <<general, cpsr, spsr>>

WriteCpsr(s) == cpsr' = s /\ word' = 0 /\ psr' = {} /\ UNCHANGED <<general, spsr>>

ReadSpsr(m) ==
    /\ psr' = IF BankOf(m) \in ExceptionBanks THEN spsr[BankOf(m)] ELSE {}
    /\ word' = 0
    /\ UNCHANGED <<general, cpsr, spsr>>

WriteSpsr(m, s) ==
    /\ word' = 0 /\ psr' = {}
    /\ spsr' = [b \in ExceptionBanks |-> IF b = BankOf(m) THEN s ELSE spsr[b]]
    /\ UNCHANGED <<general, cpsr>>

(* Asking for an SPSR refreshes the one of the current mode, and no other. *)
AskSpsr == WriteSpsr(ModeOf(cpsr), cpsr)
=============================================================================
