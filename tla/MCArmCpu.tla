------------------------------ MODULE MCArmCpu ------------------------------
(***************************************************************************)
(* Values for ArmCpu.  Words are modulo 32; instructions name r13 and r15, *)
(* a banked register and the PC (exceptions and BL add r14); the data word *)
(* misaligns a PC.  The MSR operands lead to user, FIQ and an invalid mode *)
(* and try a flag, the T bit and a reserved bit.                           *)
(***************************************************************************)
EXTENDS ArmCpu

MCWord         == 0 .. 31
MCLists        == {{}, {13}, {13, 15}}
MCOffsets      == {8}
MCFlags        == {{29}}
MCMsrOperands  == {{}, {0}, {2, 31}, {5}, {8}}
MCFieldMasks   == {{0}, {0, 3}}

=============================================================================
