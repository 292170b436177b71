------------------------------ MODULE MCMachine ------------------------------
(***************************************************************************)
(* The machine under those who work on it: the loads and stores of its     *)
(* program (LoadStore), any one instruction from many states or two in a   *)
(* row from few, and the requests of the debugger (GdbProtocol); and the   *)
(* operands its instructions shift (Shifter).  A behaviour is one of a     *)
(* single part, chosen at the start.                                       *)
(*                                                                         *)
(* A byte has two bits and a word eight; the memory has 20 of the 256      *)
(* addresses.                                                              *)
(***************************************************************************)
EXTENDS LoadStore, GdbProtocol, Shifter

VARIABLE part                                       \* the part that moves

-----------------------------------------------------------------------------
MCWord     == 0 .. 255

(* r0 is the base: misaligned, in the last word and aligned on it, and at  *)
(* the top of the address space.  The stack pointers of the user and       *)
(* supervisor modes differ.                                                *)
MCFile(base, mode) ==
    [registers_create EXCEPT !.CPSR = mode,
                             !.genreg = [s \in Slot |-> CASE s = 0 -> base
                                                          [] s = 1 -> 27
                                                          [] s = 2 -> 129
                                                          [] s = 13 -> 12
                                                          [] s = 29 -> 16
                                                          [] OTHER -> 0]]

MCContents == {[a \in 0 .. 19 |-> (a * a + a \div 4) % 4]}
MCStarts   == {MCFile(base, mode) : base \in {9, 13, 16, 254}, mode \in {USR, SVC}}
MCLists    == {{}, {1}, {0, 2}, {1, 13}, {1, 2, 13}, {1, 2, 13, 15}}

(* Every fifth value, and more: both signs, lone, mixed and repeated bits, *)
(* 0 and 255 among them.                                                   *)
MCShifted == {v \in 0 .. 255 : v % 5 = 0 \/ v \in {1, 2, 64, 127, 128}}

(* What two instructions in a row are chosen from.                         *)
FewStarts    == {MCFile(13, SVC)}
FewTransfers == {t \in Transfers : t.rn = 0 /\ t.rd = 1 /\ t.amount = 1}
FewBlocks    == {b \in Blocks : b.rn = 0 /\ b.list \in {{0, 2}, {1, 2, 13}}}

(* The debugger: byte 3 escapes, the flipped bit is the highest, and 2 is  *)
(* escaped too.  A block fits, or ends beyond the memory, or starts there. *)
(* The file it writes keeps supervisor mode or goes to user mode.          *)
MCFound == [registers_create EXCEPT !.CPSR = AllMasked, !.genreg[29] = 16]
MCRegs  == [i \in 0 .. 15 |-> i]
MCFiles == {[regs |-> MCRegs, cpsr |-> AllMasked], [regs |-> MCRegs, cpsr |-> USR]}
MCSent  == {<< >>, <<1, 3>>, <<2, 1>>}

-----------------------------------------------------------------------------
NoSession == request = Nothing /\ requests = 0 /\ reply = Nothing /\ aborted = FALSE
NoProgram == ins = NoInstruction /\ asserted = TRUE

MCInit == /\ \/ part = "one" /\ ProgramInit /\ NoSession
             \/ part = "two" /\ ProgramInit /\ p \in FewStarts /\ NoSession
             \/ part \in {"gdb", "shift"} /\ SessionInit /\ NoProgram
          /\ ShifterInit

OneInstruction ==
    /\ part = "one" /\ cycle_count = 0
    /\ ProgramNext
    /\ UNCHANGED <<part, request, requests, reply, aborted, shifting>>

TwoInstructions ==
    /\ part = "two" /\ cycle_count < MaxCycles
    /\ \/ \E t \in FewTransfers : Single(t)
       \/ \E b \in FewBlocks : Block(b)
    /\ UNCHANGED <<part, request, requests, reply, aborted, shifting>>

Debugger ==
    /\ part = "gdb" /\ SessionNext /\ cycle_count' <= 1
    /\ UNCHANGED <<part, ins, asserted, shifting>>

Operands ==
    /\ part = "shift" /\ ShifterNext
    /\ UNCHANGED <<part, session, ins, asserted>>

MCNext == OneInstruction \/ TwoInstructions \/ Debugger \/ Operands

MCSpec == MCInit /\ [][MCNext]_<<part, program, session, shifting>>
=============================================================================
