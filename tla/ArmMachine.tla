---------------------------- MODULE ArmMachine ----------------------------
(***************************************************************************)
(* The processor with its memory: the structure that arm_create of         *)
(* src/arm_core.c builds, whose cycle count and registers are ArmCpu's and *)
(* whose memory is an array of bytes.  The program it runs (LoadStore) and *)
(* the debugger (GdbProtocol) both work on it.                             *)
(***************************************************************************)
EXTENDS ArmCpu, Memory

VARIABLE m               \* the bytes of the memory

machine == <<p, cycle_count, result, m>>

(* A word is four bytes, and the memory is no larger than the addresses.   *)
MachineAssumption == /\ WordMod = ByteMod * ByteMod * ByteMod * ByteMod
                     /\ Size <= WordMod
                     /\ MemorySize = Size % WordMod

(* Registers hold words, status registers their bits, the memory bytes,    *)
(* whatever is loaded, refused or written by the debugger                  *)
(* (src/arm_core.c, src/arm_load_store.c, src/gdb_protocol.c).             *)
MachineTypeOK == TypeOK /\ m \in Contents
=============================================================================
