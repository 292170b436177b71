------------------------------- MODULE ArmCpu -------------------------------
(***************************************************************************)
(* The processor as its two users drive it under the simulator's lock: the *)
(* debugger calls arm_step, the interrupt thread calls arm_exception, in   *)
(* any order.                                                              *)
(*                                                                         *)
(* The control of every instruction handler is modelled: which registers   *)
(* it writes, through which mode, in which order, and where it returns     *)
(* early.  The data is an input: an arithmetic result, an address, a       *)
(* loaded word is any member of Data, because no property of this module   *)
(* depends on which.  (A load the memory refuses leaves the C variable     *)
(* uninitialised, so it too may load any word.)                            *)
(***************************************************************************)
EXTENDS ArmException

CONSTANTS RegisterNumbers,   \* the register numbers instructions name
          RegisterLists,     \* the lists of the block transfers
          Data,              \* results, addresses and loaded words
          Offsets,           \* sign-extended branch offsets
          Flags,             \* values of N, Z, C, V an instruction computes
          MsrOperands,       \* rotated immediates of MSR
          FieldMasks,        \* field masks of MSR
          Sent,              \* exceptions sent to the interrupt thread
          MemorySize,        \* the size of the memory, the initial r13
          MaxCycles          \* bound on the instructions executed

PC == 15
UserMask    == 28 .. 31
MutantPrivMask == 0 .. 4         \* mutant: 0x1F
PrivMask    == 0 .. 3
StateMask   == {5}
UnallocMask == 8 .. 27

ASSUME InputsAssumption == /\ RegisterNumbers \subseteq 0 .. 15
                           /\ RegisterLists \subseteq SUBSET (0 .. 15)
                           /\ Data \subseteq Word
                           /\ Offsets \subseteq Word
                           /\ Flags \subseteq SUBSET UserMask
                           /\ MsrOperands \subseteq Psr
                           /\ FieldMasks \subseteq SUBSET (0 .. 3)
                           /\ Sent \subseteq 1 .. 7
                           /\ MemorySize \in Word
                           /\ MaxCycles \in Nat

VARIABLES p,             \* the register file of the core
          cycle_count,   \* instructions fetched
          result         \* what arm_step last returned

vars == <<p, cycle_count, result>>

TypeOK == /\ p \in RegisterFileType
          /\ cycle_count \in 0 .. MaxCycles
          /\ result \in Result

-----------------------------------------------------------------------------
(* The handlers.  Each takes the register file after the fetch and gives   *)
(* the outcome.                                                            *)
Done(q)      == Outcome(q, SUCCESSFULLY_DECODED)
Undefined(q) == Outcome(q, UNDEFINED_INSTRUCTION)

\* mutant: the target is not reduced to a word
MutantBranch(q, link, offset) ==
    Done(arm_write_register(q, PC, arm_read_register(q, PC) + offset))

arm_branch(q, link, offset) ==
    LET pc     == arm_read_register(q, PC)
        linked == IF link THEN arm_write_register(q, 14, (pc - 4) % WordMod) ELSE q
    IN  Done(arm_write_register(linked, PC, (pc + offset) % WordMod))

(* MRS; word is the status register it reads, as a number.                 *)
arm_miscellaneous(q, spsr, rd, word) ==
    IF ~spsr THEN Done(arm_write_register(q, rd, word))
    ELSE IF HasSpsr(q)
         THEN Done(arm_write_register(registers_current_mode_has_spsr(q), rd, word))
         ELSE Undefined(q)

(* Loading the CPSR from the SPSR of the current mode.                     *)
RestoreCpsr(q) ==
    LET asked == registers_current_mode_has_spsr(q)
    IN  registers_write_cpsr(asked, arm_read_spsr(asked))

(* A data-processing instruction with result v.  The destination is        *)
(* written before the mode is asked for an SPSR.                           *)
data_processing(q, setFlags, rd, changeRd, v, flags) ==
    LET written == IF changeRd THEN arm_write_register(q, rd, v) ELSE q
    IN  IF ~setFlags THEN Done(written)
        ELSE IF rd = PC
             THEN IF HasSpsr(written) THEN Done(RestoreCpsr(written)) ELSE Undefined(written)
             ELSE Done(registers_write_cpsr(written, (q.CPSR \ UserMask) \cup flags))

FieldBits(fields) == {b \in 0 .. 31 : b \div 8 \in fields}

WriteUnder(old, mask, new) == (old \ mask) \cup (new \cap mask)

MutantCpsrMask(q) == UserMask \cup PrivMask      \* mutant: the mode is not asked

CpsrMask(q) == IF registers_in_a_privileged_mode(q) THEN UserMask \cup PrivMask ELSE UserMask

arm_msr_immediate(q, spsr, fields, operand) ==
    LET mask  == FieldBits(fields) \cap CpsrMask(q)
        asked == registers_current_mode_has_spsr(q)
        saved == FieldBits(fields) \cap (UserMask \cup PrivMask \cup StateMask)
    IN  IF operand \cap UnallocMask # {} THEN Undefined(q)
        ELSE IF spsr
             THEN IF HasSpsr(q)
                  THEN Done(arm_write_spsr(asked,
                                WriteUnder(arm_read_spsr(asked), saved, operand)))
                  ELSE Undefined(q)
             ELSE IF registers_in_a_privileged_mode(q) /\ operand \cap StateMask # {} THEN Undefined(q)
                  ELSE Done(registers_write_cpsr(q, WriteUnder(q.CPSR, mask, operand)))

(* A single load or store: base writeback first, then the loaded register. *)
(* The halfword class discovers an encoding it does not implement after    *)
(* the writeback.                                                          *)
arm_load_store(q, writeback, rn, base, load, rd, v, implemented) ==
    LET based == IF writeback THEN arm_write_register(q, rn, base) ELSE q
    IN  IF ~implemented THEN Undefined(based)
        ELSE Done(IF load THEN arm_write_register(based, rd, v) ELSE based)

(* Loading loaded[i] into register i of the bank of a mode, for every i in *)
(* the list.                                                               *)
\* mutant: every load goes to the user bank, as arm_write_usr_register does
MutantLoadList(q, list, mode, loaded) ==
    [q EXCEPT !.genreg = [s \in Slot |-> IF s \in list THEN loaded[s] ELSE q.genreg[s]]]

LoadList(q, list, mode, loaded) ==
    [q EXCEPT !.genreg =
        [s \in Slot |->
            IF \E i \in list : mode_ind(i, mode) # -1 /\ s = mode_ind(i, mode) + i
            THEN loaded[s % 16] ELSE q.genreg[s]]]

WordAligned(v) == v - (v % 4)

arm_load_store_multiple(q, load, S, W, list, rn, base, loaded) ==
    LET mode    == registers_get_mode(q)
        current == LoadList(q, list \ {PC}, mode, loaded)
        Finish(t) == Done(IF W THEN arm_write_register(t, rn, base) ELSE t)
    IN  IF list = {} \/ (S /\ mode \in {USR, SYS}) THEN Undefined(q)
        ELSE IF ~load THEN Finish(q)
        ELSE IF S /\ PC \notin list THEN Finish(LoadList(q, list, USR, loaded))
        ELSE IF S
             THEN IF HasSpsr(current)
                  THEN Finish(arm_write_register(RestoreCpsr(current), PC, loaded[PC]))
                  ELSE Undefined(current)
        ELSE IF PC \in list
             THEN Finish(arm_write_register(current, PC, WordAligned(loaded[PC])))
             ELSE Finish(current)

-----------------------------------------------------------------------------
(* arm_step: fetch, execute, and take the exception the execution asks for *)
arm_step(outcome, number) ==
    IF outcome.result # SUCCESSFULLY_DECODED
    THEN arm_exception(outcome.reg, outcome.result, number)
    ELSE outcome

Step(outcome, number) ==
    LET ended == arm_step(outcome, number)
    IN  /\ cycle_count < MaxCycles
        /\ cycle_count' = cycle_count + 1
        /\ p' = ended.reg
        /\ result' = ended.result

(* What an instruction that needs no software-interrupt number does.       *)
Execute(outcome) == Step(outcome, "other")

Fetched == arm_fetch(p)

(* Any instruction may carry a condition that fails.                       *)
ConditionFails == Execute(Done(Fetched))

Branch(link, offset) == Execute(arm_branch(Fetched, link, offset))

Mrs(spsr, rd, word) == Execute(arm_miscellaneous(Fetched, spsr, rd, word))

Msr(spsr, fields, operand) == Execute(arm_msr_immediate(Fetched, spsr, fields, operand))

DataProcessing(setFlags, rd, changeRd, v, flags) ==
    Execute(data_processing(Fetched, setFlags, rd, changeRd, v, flags))

LoadStore(writeback, rn, base, load, rd, v, implemented) ==
    Execute(arm_load_store(Fetched, writeback, rn, base, load, rd, v, implemented))

BlockTransfer(load, S, W, list, rn, base, loaded) ==
    Execute(arm_load_store_multiple(Fetched, load, S, W, list, rn, base, loaded))

(* Coprocessor instructions, a bit pattern SWI does not match, the PC as   *)
(* a register-shift operand, the encodings no class claims.                *)
Unimplemented == Execute(Undefined(Fetched))

SoftwareInterrupt(number) == Step(Outcome(Fetched, SOFTWARE_INTERRUPT), number)

(* The interrupt thread raises any exception it is sent (its byte is 1..7) *)
(* between two steps and drops the result.                                 *)
Interrupt(exception) ==
    /\ p' = arm_exception(p, exception, "other").reg
    /\ UNCHANGED <<cycle_count, result>>

(* arm_create: a reset of the zeroed register file, then r13.              *)
arm_create == arm_write_register(arm_exception(registers_create, RESET, "other").reg,
                                 13, MemorySize)

Init == p = arm_create /\ cycle_count = 0 /\ result = SUCCESSFULLY_DECODED

Next == \/ ConditionFails
        \/ \E link \in BOOLEAN, offset \in Offsets : Branch(link, offset)
        \/ \E spsr \in BOOLEAN, rd \in RegisterNumbers, word \in Data : Mrs(spsr, rd, word)
        \/ \E spsr \in BOOLEAN, fields \in FieldMasks, operand \in MsrOperands :
              Msr(spsr, fields, operand)
        \/ \E setFlags, changeRd \in BOOLEAN, rd \in RegisterNumbers, v \in Data, flags \in Flags :
              DataProcessing(setFlags, rd, changeRd, v, flags)
        \/ \E writeback, load, implemented \in BOOLEAN, rn, rd \in RegisterNumbers, base, v \in Data :
              LoadStore(writeback, rn, base, load, rd, v, implemented)
        \/ \E load, S, W \in BOOLEAN, list \in RegisterLists, rn \in RegisterNumbers,
              base \in Data : \E loaded \in [list -> Data] :
              BlockTransfer(load, S, W, list, rn, base, loaded)
        \/ Unimplemented
        \/ \E number \in SwiNumber : SoftwareInterrupt(number)
        \/ \E exception \in Sent : Interrupt(exception)

Spec == Init /\ [][Next]_vars

-----------------------------------------------------------------------------
(* What must hold of the CPSR wherever the program can go: T and the       *)
(* reserved bits stay clear, and the A and I masks and the top mode bit    *)
(* stay set.  MSR may change only N, Z, C, V and the low four mode bits    *)
(* (src/arm_data_processing.c lines 405-428), exceptions write 0x1d3 or    *)
(* 0x193, and a restore copies back what the SPSR query has just stored.   *)
FixedBits == {4, 7, 8}
ControlBits == /\ FixedBits \subseteq p.CPSR
               /\ p.CPSR \subseteq UserMask \cup PrivMask \cup FixedBits \cup {6}

Privileged(q) == registers_in_a_privileged_mode(q)

AtHandler(q) == /\ q.CPSR \in {EntryCpsr(RESET), EntryCpsr(INTERRUPT)}
                /\ q.genreg[PC] \in {Vector(e) : e \in Saving \cup {RESET}}

(* Unprivileged code gains privilege only by an exception: a step that     *)
(* leaves an unprivileged mode lands on a vector, in supervisor mode, with *)
(* the CPSR the exception wrote.  No MSR, no S-bit write of r15 and no     *)
(* LDM^ gives user code another way in (src/arm_data_processing.c 420-428  *)
(* and 194-201, src/arm_load_store.c 261-263).                             *)
EntryOnlyByException == [][~Privileged(p) => ~Privileged(p') \/ AtHandler(p')]_vars

UserBank == {mode_ind(i, USR) + i : i \in 0 .. 15}
BankSlots(q) == {mode_ind(i, registers_get_mode(q)) + i :
                    i \in {j \in 0 .. 15 : mode_ind(j, registers_get_mode(q)) # -1}}

LoadUserBank == \E W \in BOOLEAN, list \in RegisterLists, rn \in RegisterNumbers, base \in Data :
                   \E loaded \in [list -> Data] :
                      PC \notin list /\ BlockTransfer(TRUE, TRUE, W, list, rn, base, loaded)

(* A step changes general registers of the mode it starts in only, and no  *)
(* SPSR but that mode's; an exception may also set r14 and the SPSR of the *)
(* mode it enters, and LDM^ without the PC reaches the user bank.  So no   *)
(* code reaches the stack pointer, the link register or the saved status   *)
(* of a mode it is not in (the modes the handlers pass to registers_write, *)
(* src/arm_core.c lines 122-143).                                          *)
WritesOwnBank ==
    [][/\ \A s \in Slot : p'.genreg[s] # p.genreg[s] =>
             \/ s \in BankSlots(p)
             \/ AtHandler(p') /\ s \in BankSlots(p')
             \/ LoadUserBank /\ s \in UserBank
       /\ \A m \in ExceptionModes : p'.rstat[StatIndex(m)] # p.rstat[StatIndex(m)] =>
             \/ m = registers_get_mode(p)
             \/ AtHandler(p') /\ m = registers_get_mode(p')]_vars

-----------------------------------------------------------------------------
(* Statements of the source's comments that the code does not keep.        *)

(* src/arm_exception.c lines 75-76 and their repetitions: an exception     *)
(* "save[s] pc" in r14 and "save[s] cpsr" in the SPSR before it goes to    *)
(* the handler, whatever mode it interrupts.                               *)
ExceptionSavesContext ==
    [][\A e \in Saving \cap Sent : Interrupt(e) =>
          /\ arm_read_register(p', 14) = restore_pc(p, e)
          /\ arm_read_spsr(p') = p.CPSR]_vars

(* src/arm_load_store.c line 292: LDM with the PC and S loads the CPSR     *)
(* from the SPSR.                                                          *)
LdmLoadsCpsrFromSpsr ==
    [][\A list \in RegisterLists, rn \in RegisterNumbers, base \in Data :
          \A loaded \in [list -> Data] :
             (/\ PC \in list /\ HasSpsr(p)
              /\ BlockTransfer(TRUE, TRUE, FALSE, list, rn, base, loaded))
             => p'.CPSR = arm_read_spsr(p)]_vars
=============================================================================
