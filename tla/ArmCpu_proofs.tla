---------------------------- MODULE ArmCpu_proofs ----------------------------
(***************************************************************************)
(* Proofs about the processor, for any word size, any instruction operands *)
(* and any exceptions sent.                                                *)
(***************************************************************************)
EXTENDS ArmCpu, Storage_lemmas

-----------------------------------------------------------------------------
(* Words.                                                                  *)
LEMMA PcNumber == PC \in 0 .. 15 /\ 15 \in 0 .. 15 /\ 14 \in 0 .. 15
BY DEF PC

(* Words are integers, and the small constants of the code are words.      *)
LEMMA WordIsInt == Word \subseteq Int /\ \A k \in 0 .. 31 : k \in Word
BY WordAssumption

(* Wrapped arithmetic gives a word.                                        *)
LEMMA ModIsWord == ASSUME NEW n \in Int PROVE n % WordMod \in Word
BY WordAssumption

(* LDM clears the low two bits of a PC: what is left is a word.            *)
LEMMA AlignedIsWord == ASSUME NEW v \in Word PROVE WordAligned(v) \in Word
BY WordAssumption DEF WordAligned

(* So is the PC an instruction reads, one instruction ahead.               *)
LEMMA PcAheadIsWord == ASSUME NEW v \in Word PROVE PcAhead(v) \in Word
<1>1. (v + 4) % WordMod \in Word
  BY WordIsInt, ModIsWord
<1>2. QED BY <1>1, WordAssumption DEF PcAhead

-----------------------------------------------------------------------------
(* Every access and every handler keeps the shape of the register file.    *)
OutcomeType == [reg : RegisterFileType, result : Result]

(* An outcome pairs a register file with a result.                         *)
LEMMA OutcomeIsTyped ==
    ASSUME NEW f \in RegisterFileType, NEW e \in Result
    PROVE  Outcome(f, e) \in OutcomeType
BY DEF Outcome, OutcomeType

(* arm_read_register gives a word in every mode.                           *)
LEMMA ArmReadType ==
    ASSUME NEW f \in RegisterFileType, NEW reg \in 0 .. 15
    PROVE  arm_read_register(f, reg) \in Word
<1>1. \A m : registers_read(f, reg, m) \in Word
  BY ReadType
<1>2. QED BY <1>1, PcAheadIsWord DEF arm_read_register, arm_read_register_internal

(* arm_write_register keeps the shape in every mode.                       *)
LEMMA ArmWriteType ==
    ASSUME NEW f \in RegisterFileType, NEW reg \in 0 .. 15, NEW value \in Word
    PROVE  arm_write_register(f, reg, value) \in RegisterFileType
BY WriteType DEF arm_write_register

(* arm_fetch moves the PC only, to a word.                                 *)
LEMMA FetchType ==
    ASSUME NEW f \in RegisterFileType
    PROVE  arm_fetch(f) \in RegisterFileType
<1>1. arm_pc(f) \in Word
  BY PcNumber, ReadType DEF arm_pc
<1>2. (arm_pc(f) + 4) % WordMod \in Word
  <2>1. arm_pc(f) \in Int
    BY <1>1, WordIsInt
  <2>2. \A v \in Int : v + 4 \in Int
    OBVIOUS
  <2>3. QED BY <2>1, <2>2, ModIsWord
<1>3. QED BY <1>2, PcNumber, ArmWriteType DEF arm_fetch

(* 0x1d3 and 0x193 are status words.                                       *)
LEMMA EntryCpsrType == \A e : EntryCpsr(e) \in Psr
BY DEF EntryCpsr, AllMasked, SVC, Psr

(* The addresses of the vectors are words.                                 *)
LEMMA VectorType == \A e \in Saving \cup {RESET} : Vector(e) \in Word
BY WordIsInt DEF Vector, Saving, RESET, UNDEFINED_INSTRUCTION, PREFETCH_ABORT, DATA_ABORT,
                 INTERRUPT, FAST_INTERRUPT

(* The two writes that enter a handler keep the shape.                     *)
LEMMA EnterHandlerType ==
    ASSUME NEW f \in RegisterFileType, NEW e \in Saving \cup {RESET}
    PROVE  EnterHandler(f, e) \in RegisterFileType
BY EntryCpsrType, VectorType, WriteCpsrType, ArmWriteType DEF EnterHandler

(* So do the two that save the context.                                    *)
LEMMA SaveContextType ==
    ASSUME NEW f \in RegisterFileType, NEW e \in Saving
    PROVE  SaveContext(f, e) \in RegisterFileType
<1>1. ReturnOffset(e) \in Int
  BY DEF ReturnOffset, Saving, UNDEFINED_INSTRUCTION, PREFETCH_ABORT, DATA_ABORT,
         INTERRUPT, FAST_INTERRUPT
<1>2. arm_read_register(f, 15) \in Int
  BY PcNumber, ArmReadType, WordIsInt
<1>3. restore_pc(f, e) \in Word
  BY <1>1, <1>2, ModIsWord DEF restore_pc
<1>4. arm_write_register(f, 14, restore_pc(f, e)) \in RegisterFileType
  BY <1>3, PcNumber, ArmWriteType
<1>5. QED BY <1>4, WriteSpsrType DEF SaveContext, arm_write_spsr, RegisterFileType

(* So does the whole of arm_exception, whatever it is given.               *)
LEMMA ExceptionType ==
    ASSUME NEW f \in RegisterFileType, NEW e \in Result, NEW n \in SwiNumber
    PROVE  arm_exception(f, e, n) \in OutcomeType
<1>1. SwiResult(n) \in Result
  BY DEF SwiResult, SwiNumber, Result, END_SIMULATION, SUCCESSFULLY_DECODED, SOFTWARE_INTERRUPT
<1>2. RESET \in Result
  BY DEF RESET, Result, END_SIMULATION, SUCCESSFULLY_DECODED
<1>3. QED BY <1>1, <1>2, OutcomeIsTyped, EnterHandlerType, SaveContextType DEF arm_exception

(* The two results a handler may return.                                   *)
LEMMA DoneType ==
    ASSUME NEW f \in RegisterFileType
    PROVE  Done(f) \in OutcomeType /\ Undefined(f) \in OutcomeType
BY OutcomeIsTyped DEF Done, Undefined, Result, SUCCESSFULLY_DECODED, UNDEFINED_INSTRUCTION,
                      END_SIMULATION

(* B and BL.                                                               *)
LEMMA BranchType ==
    ASSUME NEW f \in RegisterFileType, NEW link \in BOOLEAN, NEW offset \in Word
    PROVE  arm_branch(f, link, offset) \in OutcomeType
<1> DEFINE pc == arm_read_register(f, PC)
           linked == IF link THEN arm_write_register(f, 14, (pc - 4) % WordMod) ELSE f
<1>1. pc \in Int /\ offset \in Int
  BY PcNumber, ArmReadType, WordIsInt
<1>2. (pc - 4) % WordMod \in Word /\ (pc + offset) % WordMod \in Word
  BY <1>1, ModIsWord
<1>3. linked \in RegisterFileType
  BY <1>2, PcNumber, ArmWriteType
<1>4. arm_write_register(linked, PC, (pc + offset) % WordMod) \in RegisterFileType
  BY <1>2, <1>3, PcNumber, ArmWriteType
<1>5. QED BY <1>4, DoneType DEF arm_branch

(* MRS.                                                                    *)
LEMMA MrsType ==
    ASSUME NEW f \in RegisterFileType, NEW spsr \in BOOLEAN, NEW rd \in 0 .. 15, NEW w \in Word
    PROVE  arm_miscellaneous(f, spsr, rd, w) \in OutcomeType
BY AskSpsrType, ArmWriteType, DoneType DEF arm_miscellaneous

(* The restore of the CPSR from the SPSR.                                  *)
LEMMA RestoreType ==
    ASSUME NEW f \in RegisterFileType
    PROVE  RestoreCpsr(f) \in RegisterFileType
BY AskSpsrType, ReadSpsrType, WriteCpsrType DEF RestoreCpsr, arm_read_spsr

(* The data-processing instructions.                                       *)
LEMMA DataProcessingType ==
    ASSUME NEW f \in RegisterFileType, NEW setFlags \in BOOLEAN, NEW rd \in 0 .. 15,
           NEW changeRd \in BOOLEAN, NEW v \in Word, NEW flags \in SUBSET UserMask
    PROVE  data_processing(f, setFlags, rd, changeRd, v, flags) \in OutcomeType
<1> DEFINE written == IF changeRd THEN arm_write_register(f, rd, v) ELSE f
<1>1. written \in RegisterFileType
  BY ArmWriteType
<1>2. (f.CPSR \ UserMask) \cup flags \in Psr
  <2>1. f.CPSR \in Psr
    BY DEF RegisterFileType
  <2>2. flags \subseteq 0 .. 31
    BY DEF UserMask
  <2>3. QED BY <2>1, <2>2 DEF Psr
<1>3. registers_write_cpsr(written, (f.CPSR \ UserMask) \cup flags) \in RegisterFileType
  BY <1>1, <1>2, WriteCpsrType
<1>4. QED BY <1>1, <1>3, RestoreType, DoneType DEF data_processing

(* MSR, on every path that returns early.                                  *)
LEMMA MsrType ==
    ASSUME NEW f \in RegisterFileType, NEW spsr \in BOOLEAN, NEW fields, NEW operand \in Psr
    PROVE  arm_msr_immediate(f, spsr, fields, operand) \in OutcomeType
<1> DEFINE asked == registers_current_mode_has_spsr(f)
           saved == FieldBits(fields) \cap (UserMask \cup PrivMask \cup StateMask)
           mask == FieldBits(fields) \cap CpsrMask(f)
<1>1. asked \in RegisterFileType
  BY AskSpsrType
<1>2. WriteUnder(arm_read_spsr(asked), saved, operand) \in Psr
  BY <1>1, ReadSpsrType DEF WriteUnder, arm_read_spsr, Psr
<1>3. arm_write_spsr(asked, WriteUnder(arm_read_spsr(asked), saved, operand)) \in RegisterFileType
  BY <1>1, <1>2, WriteSpsrType DEF arm_write_spsr
<1>4. WriteUnder(f.CPSR, mask, operand) \in Psr
  BY DEF WriteUnder, RegisterFileType, Psr
<1>5. registers_write_cpsr(f, WriteUnder(f.CPSR, mask, operand)) \in RegisterFileType
  BY <1>4, WriteCpsrType
<1>6. QED BY <1>3, <1>5, DoneType DEF arm_msr_immediate

(* Loads and stores of one register.                                       *)
LEMMA LoadStoreType ==
    ASSUME NEW f \in RegisterFileType, NEW writeback \in BOOLEAN, NEW rn \in 0 .. 15,
           NEW base \in Word, NEW load \in BOOLEAN, NEW rd \in 0 .. 15, NEW v \in Word,
           NEW implemented \in BOOLEAN
    PROVE  arm_load_store(f, writeback, rn, base, load, rd, v, implemented) \in OutcomeType
BY ArmWriteType, DoneType DEF arm_load_store

(* The loop of LDM over the register list.                                 *)
LEMMA LoadListType ==
    ASSUME NEW f \in RegisterFileType, NEW list \in SUBSET (0 .. 15), NEW m,
           NEW loaded \in [list -> Word], NEW part \in SUBSET list
    PROVE  LoadList(f, part, m, loaded) \in RegisterFileType
<1>1. ASSUME NEW s \in Slot, NEW i \in part, mode_ind(i, m) # -1, s = mode_ind(i, m) + i
      PROVE  loaded[s % 16] \in Word
  <2>1. mode_ind(i, m) \in {0, 16, 32, 48, 64, 80} /\ i \in 0 .. 15
    BY <1>1, ModeIndexValues
  <2>2. s % 16 = i
    BY <1>1, <2>1
  <2>3. QED BY <2>2
<1>2. QED BY <1>1 DEF LoadList, RegisterFileType

(* LDM and STM.                                                            *)
LEMMA BlockTransferType ==
    ASSUME NEW f \in RegisterFileType, NEW load \in BOOLEAN, NEW S \in BOOLEAN, NEW W \in BOOLEAN,
           NEW list \in SUBSET (0 .. 15), NEW rn \in 0 .. 15, NEW base \in Word,
           NEW loaded \in [list -> Word]
    PROVE  arm_load_store_multiple(f, load, S, W, list, rn, base, loaded) \in OutcomeType
<1> DEFINE current == LoadList(f, list \ {PC}, registers_get_mode(f), loaded)
           user == LoadList(f, list, USR, loaded)
<1>1. current \in RegisterFileType /\ user \in RegisterFileType
  BY LoadListType
<1>2. ASSUME NEW t \in RegisterFileType
      PROVE  Done(IF W THEN arm_write_register(t, rn, base) ELSE t) \in OutcomeType
  BY ArmWriteType, DoneType
<1>3. ASSUME PC \in list
      PROVE  /\ arm_write_register(RestoreCpsr(current), PC, loaded[PC]) \in RegisterFileType
             /\ arm_write_register(current, PC, WordAligned(loaded[PC])) \in RegisterFileType
  BY <1>1, <1>3, PcNumber, RestoreType, ArmWriteType, AlignedIsWord
<1>4. QED BY <1>1, <1>2, <1>3, DoneType DEF arm_load_store_multiple

-----------------------------------------------------------------------------
(* What an instruction may do to the CPSR: keep the control bits as they   *)
(* must be, and, from a mode without privilege, stay in that mode.         *)
Controlled(s) == /\ FixedBits \subseteq s
                 /\ s \subseteq UserMask \cup PrivMask \cup FixedBits \cup {6}

Lawful(s, t) == /\ Controlled(s) => Controlled(t)
                /\ (s \cap ModeField) \notin PrivilegedModes => t \cap ModeField = s \cap ModeField

(* To leave the status word alone is lawful.                               *)
LEMMA SameIsLawful == \A s : Lawful(s, s)
BY DEF Lawful

(* A write of a general register leaves the CPSR alone.                    *)
LEMMA WriteKeepsStatus ==
    ASSUME NEW f \in RegisterFileType, NEW reg, NEW value
    PROVE  arm_write_register(f, reg, value).CPSR = f.CPSR
BY DEF arm_write_register, registers_write, RegisterFileType

(* So does the fetch.                                                      *)
LEMMA FetchKeepsStatus ==
    ASSUME NEW f \in RegisterFileType
    PROVE  arm_fetch(f).CPSR = f.CPSR
BY WriteKeepsStatus DEF arm_fetch

(* The SPSR query changes an SPSR, never the CPSR.                         *)
LEMMA AskKeepsStatus ==
    ASSUME NEW f \in RegisterFileType
    PROVE  registers_current_mode_has_spsr(f).CPSR = f.CPSR
BY DEF registers_current_mode_has_spsr, registers_write_spsr, RegisterFileType

(* The loop of LDM leaves the CPSR alone.                                  *)
LEMMA LoadListKeepsStatus ==
    ASSUME NEW f \in RegisterFileType, NEW list, NEW m, NEW loaded
    PROVE  LoadList(f, list, m, loaded).CPSR = f.CPSR
BY DEF LoadList, RegisterFileType

(* The question that guards a restore has just stored the CPSR where the   *)
(* restore finds it: the CPSR does not change.                             *)
LEMMA RestoreChangesNothing ==
    ASSUME NEW f \in RegisterFileType, HasSpsr(f)
    PROVE  RestoreCpsr(f).CPSR = f.CPSR
<1> DEFINE asked == registers_current_mode_has_spsr(f)
           mode == registers_get_mode(f)
<1>1. mode \in ExceptionModes /\ StatIndex(mode) \in StatSlot
  BY StatIndexValues DEF HasSpsr
<1>2. asked = [f EXCEPT !.rstat[StatIndex(mode)] = f.CPSR] /\ asked.CPSR = f.CPSR
  BY <1>1 DEF registers_current_mode_has_spsr, registers_write_spsr, RegisterFileType
<1>3. arm_read_spsr(asked) = f.CPSR
  BY <1>1, <1>2 DEF arm_read_spsr, registers_read_spsr, registers_get_mode, RegisterFileType
<1>4. QED BY <1>2, <1>3, AskSpsrType DEF RestoreCpsr, registers_write_cpsr, RegisterFileType

(* The register file of either result.                                     *)
LEMMA RegOfOutcome == \A f : Done(f).reg = f /\ Undefined(f).reg = f
BY DEF Done, Undefined, Outcome

(* The flags are neither fixed bits nor mode bits.                         *)
LEMMA FlagsApart == UserMask \cap FixedBits = {} /\ UserMask \cap ModeField = {}
BY DEF UserMask, FixedBits, ModeField

(* An instruction may set the flags.                                       *)
LEMMA FlagsAreLawful ==
    ASSUME NEW s \in Psr, NEW flags \in SUBSET UserMask
    PROVE  Lawful(s, (s \ UserMask) \cup flags)
<1> DEFINE t == (s \ UserMask) \cup flags
<1>1. Controlled(s) => Controlled(t)
  BY FlagsApart DEF Controlled
<1>2. t \cap ModeField = s \cap ModeField
  BY FlagsApart
<1>3. QED BY <1>1, <1>2 DEF Lawful

(* B and BL change no status bit.                                          *)
LEMMA BranchLawful ==
    ASSUME NEW f \in RegisterFileType, NEW link \in BOOLEAN, NEW offset \in Word
    PROVE  Lawful(f.CPSR, arm_branch(f, link, offset).reg.CPSR)
<1> DEFINE pc == arm_read_register(f, PC)
           linked == IF link THEN arm_write_register(f, 14, (pc - 4) % WordMod) ELSE f
<1>1. (pc - 4) % WordMod \in Word
  <2>1. pc \in Int
    BY PcNumber, ArmReadType, WordIsInt
  <2>2. QED BY <2>1, ModIsWord
<1>2. linked \in RegisterFileType /\ linked.CPSR = f.CPSR
  BY <1>1, PcNumber, ArmWriteType, WriteKeepsStatus
<1>3. QED BY <1>2, WriteKeepsStatus, RegOfOutcome, SameIsLawful DEF arm_branch

(* Nor does MRS.                                                           *)
LEMMA MrsLawful ==
    ASSUME NEW f \in RegisterFileType, NEW spsr \in BOOLEAN, NEW rd \in 0 .. 15, NEW w \in Word
    PROVE  Lawful(f.CPSR, arm_miscellaneous(f, spsr, rd, w).reg.CPSR)
BY AskSpsrType, AskKeepsStatus, WriteKeepsStatus, RegOfOutcome, SameIsLawful DEF arm_miscellaneous

(* A data-processing instruction sets flags or restores the CPSR.          *)
LEMMA DataProcessingLawful ==
    ASSUME NEW f \in RegisterFileType, NEW setFlags \in BOOLEAN, NEW rd \in 0 .. 15,
           NEW changeRd \in BOOLEAN, NEW v \in Word, NEW flags \in SUBSET UserMask
    PROVE  Lawful(f.CPSR, data_processing(f, setFlags, rd, changeRd, v, flags).reg.CPSR)
<1> DEFINE written == IF changeRd THEN arm_write_register(f, rd, v) ELSE f
<1>1. written \in RegisterFileType /\ written.CPSR = f.CPSR
  BY ArmWriteType, WriteKeepsStatus
<1>2. HasSpsr(written) => RestoreCpsr(written).CPSR = f.CPSR
  BY <1>1, RestoreChangesNothing
<1>3. registers_write_cpsr(written, (f.CPSR \ UserMask) \cup flags).CPSR
        = (f.CPSR \ UserMask) \cup flags
  BY <1>1 DEF registers_write_cpsr, RegisterFileType
<1>4. Lawful(f.CPSR, (f.CPSR \ UserMask) \cup flags)
  BY FlagsAreLawful DEF RegisterFileType
<1>5. QED BY <1>1, <1>2, <1>3, <1>4, RegOfOutcome, SameIsLawful DEF data_processing

(* MSR: the mask leaves an unprivileged program the flags alone.           *)
LEMMA MsrLawful ==
    ASSUME NEW f \in RegisterFileType, NEW spsr \in BOOLEAN, NEW fields, NEW operand \in Psr
    PROVE  Lawful(f.CPSR, arm_msr_immediate(f, spsr, fields, operand).reg.CPSR)
<1> DEFINE asked == registers_current_mode_has_spsr(f)
           saved == FieldBits(fields) \cap (UserMask \cup PrivMask \cup StateMask)
           word == WriteUnder(arm_read_spsr(asked), saved, operand)
           mask == FieldBits(fields) \cap CpsrMask(f)
           new == WriteUnder(f.CPSR, mask, operand)
<1>1. arm_write_spsr(asked, word).CPSR = f.CPSR
  BY AskSpsrType, AskKeepsStatus DEF arm_write_spsr, registers_write_spsr, RegisterFileType
<1>2. Lawful(f.CPSR, new)
  <2>1. CASE registers_in_a_privileged_mode(f)
    <3>1. mask \subseteq UserMask \cup PrivMask
      BY <2>1 DEF CpsrMask
    <3>2. QED BY <2>1, <3>1
              DEF Lawful, Controlled, WriteUnder, FixedBits, UserMask, PrivMask,
                  registers_in_a_privileged_mode, registers_get_mode
  <2>2. CASE ~registers_in_a_privileged_mode(f)
    <3>1. mask \subseteq UserMask
      BY <2>2 DEF CpsrMask
    <3>2. QED BY <3>1 DEF Lawful, Controlled, WriteUnder, FixedBits, UserMask, PrivMask, ModeField
  <2>3. QED BY <2>1, <2>2
<1>3. registers_write_cpsr(f, new).CPSR = new
  BY DEF registers_write_cpsr, RegisterFileType
<1>4. QED BY <1>1, <1>2, <1>3, RegOfOutcome, SameIsLawful DEF arm_msr_immediate

(* Loads and stores of one register change no status bit.                  *)
LEMMA LoadStoreLawful ==
    ASSUME NEW f \in RegisterFileType, NEW writeback \in BOOLEAN, NEW rn \in 0 .. 15,
           NEW base \in Word, NEW load \in BOOLEAN, NEW rd \in 0 .. 15, NEW v \in Word,
           NEW implemented \in BOOLEAN
    PROVE  Lawful(f.CPSR,
                  arm_load_store(f, writeback, rn, base, load, rd, v, implemented).reg.CPSR)
<1> DEFINE based == IF writeback THEN arm_write_register(f, rn, base) ELSE f
<1>1. based \in RegisterFileType /\ based.CPSR = f.CPSR
  BY ArmWriteType, WriteKeepsStatus
<1>2. (IF load THEN arm_write_register(based, rd, v) ELSE based).CPSR = f.CPSR
  BY <1>1, WriteKeepsStatus
<1>3. QED BY <1>1, <1>2, RegOfOutcome, SameIsLawful DEF arm_load_store

(* LDM restores the CPSR or leaves it; STM leaves it.                      *)
LEMMA BlockTransferLawful ==
    ASSUME NEW f \in RegisterFileType, NEW load \in BOOLEAN, NEW S \in BOOLEAN, NEW W \in BOOLEAN,
           NEW list \in SUBSET (0 .. 15), NEW rn \in 0 .. 15, NEW base \in Word,
           NEW loaded \in [list -> Word]
    PROVE  Lawful(f.CPSR,
                  arm_load_store_multiple(f, load, S, W, list, rn, base, loaded).reg.CPSR)
<1> DEFINE current == LoadList(f, list \ {PC}, registers_get_mode(f), loaded)
           user == LoadList(f, list, USR, loaded)
           Finish(t) == Done(IF W THEN arm_write_register(t, rn, base) ELSE t)
<1>1. /\ current \in RegisterFileType /\ current.CPSR = f.CPSR
      /\ user \in RegisterFileType /\ user.CPSR = f.CPSR
  BY LoadListType, LoadListKeepsStatus
<1>2. ASSUME NEW t \in RegisterFileType PROVE Finish(t).reg.CPSR = t.CPSR
  BY WriteKeepsStatus, RegOfOutcome
<1>3. ASSUME PC \in list, HasSpsr(current)
      PROVE  /\ arm_write_register(RestoreCpsr(current), PC, loaded[PC]) \in RegisterFileType
             /\ arm_write_register(RestoreCpsr(current), PC, loaded[PC]).CPSR = f.CPSR
  <2>1. loaded[PC] \in Word /\ PC \in 0 .. 15
    BY <1>3, PcNumber
  <2>2. RestoreCpsr(current) \in RegisterFileType /\ RestoreCpsr(current).CPSR = f.CPSR
    BY <1>1, <1>3, RestoreType, RestoreChangesNothing
  <2>3. QED BY <2>1, <2>2, ArmWriteType, WriteKeepsStatus
<1>4. ASSUME PC \in list
      PROVE  /\ arm_write_register(current, PC, WordAligned(loaded[PC])) \in RegisterFileType
             /\ arm_write_register(current, PC, WordAligned(loaded[PC])).CPSR = f.CPSR
  BY <1>1, <1>4, PcNumber, ArmWriteType, AlignedIsWord, WriteKeepsStatus
<1>5. arm_load_store_multiple(f, load, S, W, list, rn, base, loaded).reg.CPSR = f.CPSR
  BY <1>1, <1>2, <1>3, <1>4, RegOfOutcome DEF arm_load_store_multiple
<1>6. QED BY <1>5, SameIsLawful

-----------------------------------------------------------------------------
(* arm_step and the exceptions it ends in.                                 *)
LEMMA StepType ==
    ASSUME NEW o \in OutcomeType, NEW n \in SwiNumber
    PROVE  arm_step(o, n) \in OutcomeType
BY ExceptionType DEF arm_step, OutcomeType

(* The register file a handler is given.                                   *)
LEMMA FetchedType == ASSUME TypeOK PROVE Fetched \in RegisterFileType
BY FetchType DEF TypeOK, Fetched

(* The register file arm_create leaves.                                    *)
LEMMA CreatedType == arm_create \in RegisterFileType
<1>1. RESET \in Result /\ "other" \in SwiNumber /\ 13 \in 0 .. 15
  BY DEF RESET, Result, SwiNumber, SUCCESSFULLY_DECODED, END_SIMULATION
<1>2. arm_exception(registers_create, RESET, "other").reg \in RegisterFileType
  BY <1>1, CreateType, ExceptionType DEF OutcomeType
<1>3. QED BY <1>1, <1>2, ArmWriteType, InputsAssumption DEF arm_create

(* A step with an outcome of the right type keeps TypeOK.                  *)
LEMMA TypedStep ==
    ASSUME TypeOK, NEW o \in OutcomeType, NEW n \in SwiNumber, Step(o, n)
    PROVE  TypeOK'
<1>1. arm_step(o, n) \in OutcomeType
  BY StepType
<1>2. cycle_count' \in 0 .. MaxCycles
  BY InputsAssumption DEF Step, TypeOK
<1>3. QED BY <1>1, <1>2 DEF Step, TypeOK, OutcomeType

(* Every execution is the step of an outcome of the right type: what the   *)
(* proofs below need of the thirteen kinds of instruction.                 *)
LEMMA ExecutionIsStep ==
    ASSUME TypeOK, Next
    PROVE  \/ \E o \in OutcomeType, n \in SwiNumber : Lawful(p.CPSR, o.reg.CPSR) /\ Step(o, n)
           \/ \E e \in Sent : Interrupt(e)
<1> DEFINE Goal == \E o \in OutcomeType, n \in SwiNumber :
                      Lawful(p.CPSR, o.reg.CPSR) /\ Step(o, n)
<1>0. Fetched.CPSR = p.CPSR
  BY FetchKeepsStatus DEF TypeOK, Fetched
<1> USE FetchedType, InputsAssumption, <1>0
<1>a. "other" \in SwiNumber
  BY DEF SwiNumber
<1>1. ConditionFails => Goal
  BY <1>a, DoneType, RegOfOutcome, SameIsLawful DEF ConditionFails, Execute
<1>2. ASSUME NEW link \in BOOLEAN, NEW offset \in Offsets, Branch(link, offset)
      PROVE  Goal
  BY <1>a, <1>2, BranchType, BranchLawful DEF Branch, Execute
<1>3. ASSUME NEW spsr \in BOOLEAN, NEW rd \in RegisterNumbers, NEW w \in Data, Mrs(spsr, rd, w)
      PROVE  Goal
  BY <1>a, <1>3, MrsType, MrsLawful DEF Mrs, Execute
<1>4. ASSUME NEW spsr \in BOOLEAN, NEW fields \in FieldMasks, NEW operand \in MsrOperands,
             Msr(spsr, fields, operand)
      PROVE  Goal
  BY <1>a, <1>4, MsrType, MsrLawful DEF Msr, Execute
<1>5. ASSUME NEW setFlags \in BOOLEAN, NEW changeRd \in BOOLEAN, NEW rd \in RegisterNumbers,
             NEW v \in Data, NEW flags \in Flags,
             DataProcessing(setFlags, rd, changeRd, v, flags)
      PROVE  Goal
  <2> DEFINE o == data_processing(Fetched, setFlags, rd, changeRd, v, flags)
  <2>1. o \in OutcomeType /\ Lawful(p.CPSR, o.reg.CPSR)
    BY DataProcessingType, DataProcessingLawful
  <2>2. QED BY <1>a, <1>5, <2>1 DEF DataProcessing, Execute
<1>6. ASSUME NEW writeback \in BOOLEAN, NEW load \in BOOLEAN, NEW implemented \in BOOLEAN,
             NEW rn \in RegisterNumbers, NEW rd \in RegisterNumbers, NEW base \in Data,
             NEW v \in Data, LoadStore(writeback, rn, base, load, rd, v, implemented)
      PROVE  Goal
  <2> DEFINE o == arm_load_store(Fetched, writeback, rn, base, load, rd, v, implemented)
  <2>1. o \in OutcomeType /\ Lawful(p.CPSR, o.reg.CPSR)
    BY LoadStoreType, LoadStoreLawful
  <2>2. QED BY <1>a, <1>6, <2>1 DEF LoadStore, Execute
<1>7. ASSUME NEW load \in BOOLEAN, NEW S \in BOOLEAN, NEW W \in BOOLEAN,
             NEW list \in RegisterLists, NEW rn \in RegisterNumbers, NEW base \in Data,
             NEW loaded \in [list -> Data], BlockTransfer(load, S, W, list, rn, base, loaded)
      PROVE  Goal
  <2>1. loaded \in [list -> Word] /\ list \in SUBSET (0 .. 15)
    OBVIOUS
  <2> DEFINE o == arm_load_store_multiple(Fetched, load, S, W, list, rn, base, loaded)
  <2>2. o \in OutcomeType /\ Lawful(p.CPSR, o.reg.CPSR)
    BY <2>1, BlockTransferType, BlockTransferLawful
  <2>3. QED BY <1>a, <1>7, <2>2 DEF BlockTransfer, Execute
<1>8. Unimplemented => Goal
  BY <1>a, DoneType, RegOfOutcome, SameIsLawful DEF Unimplemented, Execute
<1>9. ASSUME NEW n \in SwiNumber, SoftwareInterrupt(n) PROVE Goal
  <2>1. Outcome(Fetched, SOFTWARE_INTERRUPT) \in OutcomeType
    BY OutcomeIsTyped
       DEF Result, SOFTWARE_INTERRUPT, SUCCESSFULLY_DECODED, END_SIMULATION
  <2>2. Lawful(p.CPSR, Outcome(Fetched, SOFTWARE_INTERRUPT).reg.CPSR)
    <3>1. Outcome(Fetched, SOFTWARE_INTERRUPT).reg = Fetched
      BY DEF Outcome
    <3>2. QED BY <3>1, SameIsLawful
  <2>3. Step(Outcome(Fetched, SOFTWARE_INTERRUPT), n)
    BY <1>9 DEF SoftwareInterrupt
  <2>4. QED BY <2>1, <2>2, <2>3
<1> HIDE DEF Goal
<1> HIDE FetchedType, InputsAssumption, <1>0
<1>10. (\E link \in BOOLEAN, offset \in Offsets : Branch(link, offset)) => Goal
  BY <1>2
<1>11. (\E spsr \in BOOLEAN, rd \in RegisterNumbers, word \in Data : Mrs(spsr, rd, word)) => Goal
  BY <1>3
<1>12. (\E spsr \in BOOLEAN, fields \in FieldMasks, operand \in MsrOperands :
           Msr(spsr, fields, operand)) => Goal
  BY <1>4
<1>13. (\E setFlags, changeRd \in BOOLEAN, rd \in RegisterNumbers, v \in Data, flags \in Flags :
           DataProcessing(setFlags, rd, changeRd, v, flags)) => Goal
  BY <1>5
<1>14. (\E writeback, load, implemented \in BOOLEAN, rn, rd \in RegisterNumbers, base, v \in Data :
           LoadStore(writeback, rn, base, load, rd, v, implemented)) => Goal
  BY <1>6
<1>15. (\E load, S, W \in BOOLEAN, list \in RegisterLists, rn \in RegisterNumbers, base \in Data :
           \E loaded \in [list -> Data] : BlockTransfer(load, S, W, list, rn, base, loaded)) => Goal
  BY <1>7
<1>16. (\E number \in SwiNumber : SoftwareInterrupt(number)) => Goal
  BY <1>9
<1>17. Goal \/ \E e \in Sent : Interrupt(e)
  BY <1>1, <1>8, <1>10, <1>11, <1>12, <1>13, <1>14, <1>15, <1>16 DEF Next
<1>18. QED BY <1>17 DEF Goal

(* Type correctness of the processor: whatever is executed or raised, the  *)
(* register file keeps its shape, every register holds a word and arm_step *)
(* returns one of the ten results of src/arm_constants.h.                  *)
THEOREM TypeCorrect == Spec => []TypeOK
<1>1. Init => TypeOK
  BY CreatedType, InputsAssumption
     DEF Init, TypeOK, Result, SUCCESSFULLY_DECODED, END_SIMULATION
<1>2. TypeOK /\ [Next]_vars => TypeOK'
  <2> SUFFICES ASSUME TypeOK, [Next]_vars PROVE TypeOK'
    OBVIOUS
  <2>1. ASSUME NEW o \in OutcomeType, NEW n \in SwiNumber, Step(o, n) PROVE TypeOK'
    BY <2>1, TypedStep
  <2>2. ASSUME NEW e \in Sent, Interrupt(e) PROVE TypeOK'
    <3>1. arm_exception(p, e, "other") \in OutcomeType
      BY ExceptionType, InputsAssumption
         DEF TypeOK, SwiNumber, Result, SUCCESSFULLY_DECODED, END_SIMULATION
    <3>2. QED BY <2>2, <3>1 DEF Interrupt, TypeOK, OutcomeType
  <2>3. CASE UNCHANGED vars
    BY <2>3 DEF vars, TypeOK
  <2>4. QED BY <2>1, <2>2, <2>3, ExecutionIsStep
<1>3. QED BY <1>1, <1>2, PTL DEF Spec

-----------------------------------------------------------------------------
(* What an exception does to the CPSR: nothing, or the handler's value, at *)
(* a vector.                                                               *)
LEMMA EntryStatus ==
    /\ EntryCpsr(RESET) = {0, 1, 4, 6, 7, 8}
    /\ EntryCpsr(INTERRUPT) = {0, 1, 4, 7, 8}
    /\ \A e : EntryCpsr(e) \in {EntryCpsr(RESET), EntryCpsr(INTERRUPT)}
<1>1. AllMasked = {0, 1, 4, 6, 7, 8}
  BY DEF AllMasked, SVC
<1>2. AllMasked \ {6} = {0, 1, 4, 7, 8}
  BY <1>1
<1>3. QED BY <1>1, <1>2 DEF EntryCpsr, RESET, FAST_INTERRUPT, INTERRUPT

(* The status an exception writes has its control bits in order.           *)
LEMMA EntryIsControlled == \A e : Controlled(EntryCpsr(e))
BY EntryStatus DEF Controlled, FixedBits, UserMask, PrivMask

(* Entering a handler ends at its vector, with that status.                *)
LEMMA EnterHandlerArrives ==
    ASSUME NEW f \in RegisterFileType, NEW e \in Saving \cup {RESET}
    PROVE  EnterHandler(f, e).CPSR = EntryCpsr(e) /\ AtHandler(EnterHandler(f, e))
<1> DEFINE g == registers_write_cpsr(f, EntryCpsr(e))
<1>1. g \in RegisterFileType /\ g.CPSR = EntryCpsr(e)
  BY EntryCpsrType, WriteCpsrType DEF registers_write_cpsr, RegisterFileType
<1>2. EnterHandler(f, e) = [g EXCEPT !.genreg[15] = Vector(e)]
  BY DEF EnterHandler, arm_write_register, registers_write, mode_ind, USR_INDEX
<1>3. EnterHandler(f, e).CPSR = EntryCpsr(e) /\ EnterHandler(f, e).genreg[PC] = Vector(e)
  BY <1>1, <1>2 DEF RegisterFileType, Slot, PC
<1>4. QED BY <1>3, EntryStatus DEF AtHandler

(* Reset, software interrupt and the others are apart.                     *)
LEMMA ExceptionsDiffer == RESET \notin Saving /\ SOFTWARE_INTERRUPT \notin Saving \cup {RESET}
BY DEF Saving, RESET, DATA_ABORT, FAST_INTERRUPT, INTERRUPT, PREFETCH_ABORT,
       UNDEFINED_INSTRUCTION, SOFTWARE_INTERRUPT

(* An exception changes nothing or arrives at a handler.                   *)
LEMMA ExceptionArrives ==
    ASSUME NEW f \in RegisterFileType, NEW e \in Result, NEW n \in SwiNumber
    PROVE  LET g == arm_exception(f, e, n).reg
           IN  g = f \/ (Controlled(g.CPSR) /\ AtHandler(g))
<1>0. \A h, r : Outcome(h, r).reg = h
  BY DEF Outcome
<1>1. CASE e \in Saving \cup {RESET} /\ e # SOFTWARE_INTERRUPT
  <2>1. \A h \in RegisterFileType : /\ Controlled(EnterHandler(h, e).CPSR)
                                    /\ AtHandler(EnterHandler(h, e))
    BY <1>1, EnterHandlerArrives, EntryIsControlled
  <2>2. e = RESET \/ SaveContext(f, e) \in RegisterFileType
    BY <1>1, SaveContextType
  <2>3. CASE e = RESET
    <3>1. arm_exception(f, e, n) = Outcome(EnterHandler(f, RESET), RESET)
      BY <1>1, <2>3, ExceptionsDiffer DEF arm_exception
    <3>2. QED BY <1>0, <1>1, <2>1, <2>3, <3>1
  <2>4. CASE e # RESET
    <3>1. arm_exception(f, e, n) = Outcome(EnterHandler(SaveContext(f, e), e), e)
      BY <1>1, <2>4 DEF arm_exception
    <3>2. QED BY <1>0, <2>1, <2>2, <2>4, <3>1
  <2>5. QED BY <2>3, <2>4
<1>2. CASE ~(e \in Saving \cup {RESET} /\ e # SOFTWARE_INTERRUPT)
  <2>1. arm_exception(f, e, n) = Outcome(f, SwiResult(n)) \/ arm_exception(f, e, n) = Outcome(f, e)
    BY <1>2, ExceptionsDiffer DEF arm_exception
  <2>2. QED BY <1>0, <2>1
<1>3. QED BY <1>1, <1>2

(* A step, from the CPSR before to the CPSR after.                         *)
LEMMA StepStatus ==
    ASSUME TypeOK, [Next]_vars
    PROVE  /\ ControlBits => ControlBits'
           /\ ~Privileged(p) => ~Privileged(p') \/ AtHandler(p')
<1>1. ASSUME NEW o \in OutcomeType, NEW n \in SwiNumber, Lawful(p.CPSR, o.reg.CPSR), Step(o, n)
      PROVE  /\ ControlBits => ControlBits'
             /\ ~Privileged(p) => ~Privileged(p') \/ AtHandler(p')
  <2>1. p' = o.reg \/ (Controlled(p'.CPSR) /\ AtHandler(p'))
    BY <1>1, ExceptionArrives DEF Step, arm_step, OutcomeType
  <2>2. QED BY <1>1, <2>1
            DEF Lawful, Controlled, ControlBits, Privileged, registers_in_a_privileged_mode,
                registers_get_mode
<1>2. ASSUME NEW e \in Sent, Interrupt(e)
      PROVE  /\ ControlBits => ControlBits'
             /\ ~Privileged(p) => ~Privileged(p') \/ AtHandler(p')
  <2>1. e \in Result /\ "other" \in SwiNumber
    BY InputsAssumption DEF SwiNumber, Result, SUCCESSFULLY_DECODED, END_SIMULATION
  <2>2. p' = p \/ (Controlled(p'.CPSR) /\ AtHandler(p'))
    BY <1>2, <2>1, ExceptionArrives DEF Interrupt, TypeOK
  <2>3. QED BY <2>2 DEF Controlled, ControlBits, Privileged
<1>3. CASE UNCHANGED vars
  BY <1>3 DEF vars, ControlBits, Privileged
<1>4. QED BY <1>1, <1>2, <1>3, ExecutionIsStep

(* The control bits hold for every word size, every operand and every      *)
(* exception: no MSR sets T or a reserved bit or clears a mask             *)
(* (src/arm_data_processing.c lines 392-441).                              *)
THEOREM ControlBitsHold == Spec => []ControlBits
<1>1. Init => ControlBits
  <2>1. arm_exception(registers_create, RESET, "other").reg = EnterHandler(registers_create, RESET)
    <3>1. arm_exception(registers_create, RESET, "other")
            = Outcome(EnterHandler(registers_create, RESET), RESET)
      BY ExceptionsDiffer DEF arm_exception
    <3>2. QED BY <3>1 DEF Outcome
  <2>2. EnterHandler(registers_create, RESET) \in RegisterFileType
        /\ Controlled(EnterHandler(registers_create, RESET).CPSR)
    BY CreateType, EnterHandlerType, EnterHandlerArrives, EntryIsControlled
  <2>3. QED BY <2>1, <2>2, WriteKeepsStatus DEF Init, arm_create, ControlBits, Controlled
<1>2. TypeOK /\ ControlBits /\ [Next]_vars => ControlBits'
  BY StepStatus
<1>3. QED BY <1>1, <1>2, TypeCorrect, PTL DEF Spec

(* No instruction leaves an unprivileged mode except into a handler, with  *)
(* the CPSR and the vector of an exception.                                *)
THEOREM OnlyExceptionsEnter == Spec => EntryOnlyByException
<1>1. TypeOK /\ [Next]_vars => [~Privileged(p) => ~Privileged(p') \/ AtHandler(p')]_vars
  BY StepStatus
<1>2. QED BY <1>1, TypeCorrect, PTL DEF Spec, EntryOnlyByException

-----------------------------------------------------------------------------
(* What the code of one mode may reach: the general registers of the mode  *)
(* it starts in and the SPSR of that mode.                                 *)
OwnBank(f, g) ==
    /\ \A s \in Slot : g.genreg[s] # f.genreg[s] => s \in BankSlots(f)
    /\ \A m \in ExceptionModes :
          g.rstat[StatIndex(m)] # f.rstat[StatIndex(m)] => m = registers_get_mode(f)

(* Changing nothing reaches nothing.                                       *)
LEMMA SameIsOwn == \A f : OwnBank(f, f)
BY DEF OwnBank

(* Two changes in the same mode reach what each of them reaches.           *)
LEMMA OwnIsTransitive ==
    ASSUME NEW f, NEW g, NEW h, OwnBank(f, g), g.CPSR = f.CPSR, OwnBank(g, h)
    PROVE  OwnBank(f, h)
<1>1. BankSlots(g) = BankSlots(f) /\ registers_get_mode(g) = registers_get_mode(f)
  BY DEF BankSlots, registers_get_mode
<1>2. QED BY <1>1 DEF OwnBank

(* The slot a register number and the current mode lead to is of the bank. *)
LEMMA OwnSlot ==
    ASSUME NEW f, NEW reg \in 0 .. 15, mode_ind(reg, registers_get_mode(f)) # -1
    PROVE  mode_ind(reg, registers_get_mode(f)) + reg \in BankSlots(f)
BY DEF BankSlots

(* A write of a register, in the mode of the file.                         *)
LEMMA WriteIsOwn ==
    ASSUME NEW f \in RegisterFileType, NEW reg \in 0 .. 15, NEW value
    PROVE  OwnBank(f, arm_write_register(f, reg, value))
<1> DEFINE k == mode_ind(reg, registers_get_mode(f))
           g == arm_write_register(f, reg, value)
<1>1. CASE k = -1
  BY <1>1, SameIsOwn DEF arm_write_register, registers_write
<1>2. CASE k # -1
  <2>1. g = [f EXCEPT !.genreg[k + reg] = value]
    BY <1>2 DEF arm_write_register, registers_write
  <2>2. g.rstat = f.rstat /\ \A s \in Slot : s # k + reg => g.genreg[s] = f.genreg[s]
    BY <2>1 DEF RegisterFileType
  <2>3. k + reg \in BankSlots(f)
    BY <1>2, OwnSlot
  <2>4. QED BY <2>2, <2>3 DEF OwnBank
<1>3. QED BY <1>1, <1>2

(* A write of the SPSR, in the mode of the file.                           *)
LEMMA WriteSpsrIsOwn ==
    ASSUME NEW f \in RegisterFileType, NEW value
    PROVE  OwnBank(f, arm_write_spsr(f, value)) /\ arm_write_spsr(f, value).CPSR = f.CPSR
<1> DEFINE m == registers_get_mode(f)
           g == arm_write_spsr(f, value)
<1>1. CASE m \notin ExceptionModes
  BY <1>1, SameIsOwn DEF arm_write_spsr, registers_write_spsr
<1>2. CASE m \in ExceptionModes
  <2>1. g = [f EXCEPT !.rstat[StatIndex(m)] = value]
    BY <1>2 DEF arm_write_spsr, registers_write_spsr
  <2>2. g.CPSR = f.CPSR /\ g.genreg = f.genreg
        /\ \A i \in StatSlot : i # StatIndex(m) => g.rstat[i] = f.rstat[i]
    BY <2>1 DEF RegisterFileType
  <2>3. QED BY <1>2, <2>2, StatIndexValues DEF OwnBank
<1>3. QED BY <1>1, <1>2

(* A write of the CPSR reaches no bank.                                    *)
LEMMA WriteCpsrIsOwn ==
    ASSUME NEW f \in RegisterFileType, NEW g \in RegisterFileType, NEW value, OwnBank(f, g)
    PROVE  OwnBank(f, registers_write_cpsr(g, value))
BY DEF OwnBank, registers_write_cpsr, RegisterFileType

(* The SPSR query, and the restore that follows it.                        *)
LEMMA RestoreIsOwn ==
    ASSUME NEW f \in RegisterFileType
    PROVE  /\ OwnBank(f, registers_current_mode_has_spsr(f))
           /\ OwnBank(f, RestoreCpsr(f))
<1>1. OwnBank(f, registers_current_mode_has_spsr(f))
  BY WriteSpsrIsOwn DEF registers_current_mode_has_spsr, arm_write_spsr
<1>2. QED BY <1>1, AskSpsrType, WriteCpsrIsOwn DEF RestoreCpsr

(* The loop of LDM over the register list, in the mode of the file.        *)
LEMMA LoadListIsOwn ==
    ASSUME NEW f \in RegisterFileType, NEW part \in SUBSET (0 .. 15), NEW loaded
    PROVE  OwnBank(f, LoadList(f, part, registers_get_mode(f), loaded))
<1> DEFINE g == LoadList(f, part, registers_get_mode(f), loaded)
<1>1. g.rstat = f.rstat
  BY DEF LoadList, RegisterFileType
<1>2. ASSUME NEW s \in Slot, g.genreg[s] # f.genreg[s] PROVE s \in BankSlots(f)
  <2>1. \E i \in part : mode_ind(i, registers_get_mode(f)) # -1
                        /\ s = mode_ind(i, registers_get_mode(f)) + i
    BY <1>2 DEF LoadList, RegisterFileType
  <2>2. QED BY <2>1, OwnSlot
<1>3. QED BY <1>1, <1>2 DEF OwnBank

(* The same loop over the user bank reaches that bank and no SPSR.         *)
LEMMA LoadListIsUser ==
    ASSUME NEW f \in RegisterFileType, NEW part \in SUBSET (0 .. 15), NEW loaded
    PROVE  LET g == LoadList(f, part, USR, loaded)
           IN  /\ \A s \in Slot : g.genreg[s] # f.genreg[s] => s \in UserBank
               /\ g.rstat = f.rstat
<1> DEFINE g == LoadList(f, part, USR, loaded)
<1>1. g.rstat = f.rstat
  BY DEF LoadList, RegisterFileType
<1>2. ASSUME NEW s \in Slot, g.genreg[s] # f.genreg[s] PROVE s \in UserBank
  <2>1. \E i \in part : mode_ind(i, USR) # -1 /\ s = mode_ind(i, USR) + i
    BY <1>2 DEF LoadList, RegisterFileType
  <2>2. QED BY <2>1 DEF UserBank
<1>3. QED BY <1>1, <1>2

-----------------------------------------------------------------------------
(* What every handler does but LDM^ without the PC: it reaches its own     *)
(* bank, and where it does not succeed the mode is still the one it        *)
(* started in, so that the exception that follows is taken from there.     *)
StaysHome(f, o) == /\ OwnBank(f, o.reg)
                   /\ o.result # SUCCESSFULLY_DECODED => o.reg.CPSR = f.CPSR

(* The two ways a handler returns.                                         *)
LEMMA ReturnsHome ==
    ASSUME NEW f, NEW g, OwnBank(f, g)
    PROVE  StaysHome(f, Done(g)) /\ (g.CPSR = f.CPSR => StaysHome(f, Undefined(g)))
BY DEF StaysHome, Done, Undefined, Outcome

(* B and BL.                                                               *)
LEMMA BranchStaysHome ==
    ASSUME NEW f \in RegisterFileType, NEW link \in BOOLEAN, NEW offset \in Word
    PROVE  StaysHome(f, arm_branch(f, link, offset))
<1> DEFINE pc == arm_read_register(f, PC)
           linked == IF link THEN arm_write_register(f, 14, (pc - 4) % WordMod) ELSE f
           branched == arm_write_register(linked, PC, (pc + offset) % WordMod)
<1>1. (pc - 4) % WordMod \in Word
  <2>1. pc \in Int
    BY PcNumber, ArmReadType, WordIsInt
  <2>2. QED BY <2>1, ModIsWord
<1>2. linked \in RegisterFileType /\ linked.CPSR = f.CPSR /\ OwnBank(f, linked)
  BY <1>1, PcNumber, ArmWriteType, WriteKeepsStatus, WriteIsOwn, SameIsOwn
<1>3. OwnBank(linked, branched)
  BY <1>2, PcNumber, WriteIsOwn
<1>4. OwnBank(f, branched)
  BY <1>2, <1>3, OwnIsTransitive
<1>5. QED BY <1>4, ReturnsHome DEF arm_branch

(* MRS.                                                                    *)
LEMMA MrsStaysHome ==
    ASSUME NEW f \in RegisterFileType, NEW spsr \in BOOLEAN, NEW rd \in 0 .. 15, NEW w \in Word
    PROVE  StaysHome(f, arm_miscellaneous(f, spsr, rd, w))
<1> DEFINE asked == registers_current_mode_has_spsr(f)
<1>1. OwnBank(f, arm_write_register(f, rd, w))
  BY WriteIsOwn
<1>2. asked \in RegisterFileType /\ asked.CPSR = f.CPSR /\ OwnBank(f, asked)
  BY AskSpsrType, AskKeepsStatus, RestoreIsOwn
<1>3. OwnBank(asked, arm_write_register(asked, rd, w))
  BY <1>2, WriteIsOwn
<1>4. OwnBank(f, arm_write_register(asked, rd, w))
  BY <1>2, <1>3, OwnIsTransitive
<1>5. QED BY <1>1, <1>4, SameIsOwn, ReturnsHome DEF arm_miscellaneous

(* The data-processing instructions write rd before the mode is asked for  *)
(* an SPSR, and change the mode last if at all.                            *)
LEMMA DataProcessingStaysHome ==
    ASSUME NEW f \in RegisterFileType, NEW setFlags \in BOOLEAN, NEW rd \in 0 .. 15,
           NEW changeRd \in BOOLEAN, NEW v \in Word, NEW flags
    PROVE  StaysHome(f, data_processing(f, setFlags, rd, changeRd, v, flags))
<1> DEFINE written == IF changeRd THEN arm_write_register(f, rd, v) ELSE f
           status == (f.CPSR \ UserMask) \cup flags
<1>1. written \in RegisterFileType /\ written.CPSR = f.CPSR /\ OwnBank(f, written)
  BY ArmWriteType, WriteKeepsStatus, WriteIsOwn, SameIsOwn
<1>2. OwnBank(written, RestoreCpsr(written))
  BY <1>1, RestoreIsOwn
<1>3. OwnBank(f, RestoreCpsr(written))
  BY <1>1, <1>2, OwnIsTransitive
<1>4. OwnBank(f, registers_write_cpsr(written, status))
  BY <1>1, WriteCpsrIsOwn
<1>5. /\ StaysHome(f, Done(written)) /\ StaysHome(f, Undefined(written))
      /\ StaysHome(f, Done(RestoreCpsr(written)))
      /\ StaysHome(f, Done(registers_write_cpsr(written, status)))
  BY <1>1, <1>3, <1>4, ReturnsHome
<1>6. QED BY <1>5 DEF data_processing

(* MSR refuses before it writes anything.                                  *)
LEMMA MsrStaysHome ==
    ASSUME NEW f \in RegisterFileType, NEW spsr \in BOOLEAN, NEW fields, NEW operand
    PROVE  StaysHome(f, arm_msr_immediate(f, spsr, fields, operand))
<1> DEFINE asked == registers_current_mode_has_spsr(f)
           saved == FieldBits(fields) \cap (UserMask \cup PrivMask \cup StateMask)
           word == WriteUnder(arm_read_spsr(asked), saved, operand)
           status == WriteUnder(f.CPSR, FieldBits(fields) \cap CpsrMask(f), operand)
<1>1. asked \in RegisterFileType /\ asked.CPSR = f.CPSR /\ OwnBank(f, asked)
  BY AskSpsrType, AskKeepsStatus, RestoreIsOwn
<1>2. OwnBank(asked, arm_write_spsr(asked, word))
  BY <1>1, WriteSpsrIsOwn
<1>3. OwnBank(f, arm_write_spsr(asked, word))
  BY <1>1, <1>2, OwnIsTransitive
<1>4. OwnBank(f, registers_write_cpsr(f, status))
  BY SameIsOwn, WriteCpsrIsOwn
<1>5. /\ StaysHome(f, Undefined(f)) /\ StaysHome(f, Done(arm_write_spsr(asked, word)))
      /\ StaysHome(f, Done(registers_write_cpsr(f, status)))
  BY <1>3, <1>4, SameIsOwn, ReturnsHome
<1>6. QED BY <1>5 DEF arm_msr_immediate

(* Loads and stores of one register, the halfword class too, which refuses *)
(* an encoding after the writeback.                                        *)
LEMMA LoadStoreStaysHome ==
    ASSUME NEW f \in RegisterFileType, NEW writeback \in BOOLEAN, NEW rn \in 0 .. 15,
           NEW base \in Word, NEW load \in BOOLEAN, NEW rd \in 0 .. 15, NEW v \in Word,
           NEW implemented \in BOOLEAN
    PROVE  StaysHome(f, arm_load_store(f, writeback, rn, base, load, rd, v, implemented))
<1> DEFINE based == IF writeback THEN arm_write_register(f, rn, base) ELSE f
<1>1. based \in RegisterFileType /\ based.CPSR = f.CPSR /\ OwnBank(f, based)
  BY ArmWriteType, WriteKeepsStatus, WriteIsOwn, SameIsOwn
<1>2. OwnBank(based, arm_write_register(based, rd, v))
  BY <1>1, WriteIsOwn
<1>3. OwnBank(f, arm_write_register(based, rd, v))
  BY <1>1, <1>2, OwnIsTransitive
<1>4. /\ StaysHome(f, Undefined(based)) /\ StaysHome(f, Done(based))
      /\ StaysHome(f, Done(arm_write_register(based, rd, v)))
  BY <1>1, <1>3, ReturnsHome
<1>5. QED BY <1>4 DEF arm_load_store

(* LDM and STM, but for the LDM that S sends to the user bank.             *)
LEMMA BlockTransferStaysHome ==
    ASSUME NEW f \in RegisterFileType, NEW load \in BOOLEAN, NEW S \in BOOLEAN, NEW W \in BOOLEAN,
           NEW list \in SUBSET (0 .. 15), NEW rn \in 0 .. 15, NEW base \in Word,
           NEW loaded \in [list -> Word],
           ~(load /\ S /\ PC \notin list)
    PROVE  StaysHome(f, arm_load_store_multiple(f, load, S, W, list, rn, base, loaded))
<1> DEFINE current == LoadList(f, list \ {PC}, registers_get_mode(f), loaded)
           restored == arm_write_register(RestoreCpsr(current), PC, loaded[PC])
           jumped == arm_write_register(current, PC, WordAligned(loaded[PC]))
           Finish(t) == Done(IF W THEN arm_write_register(t, rn, base) ELSE t)
<1>1. current \in RegisterFileType /\ current.CPSR = f.CPSR /\ OwnBank(f, current)
  BY LoadListType, LoadListKeepsStatus, LoadListIsOwn
<1>2. ASSUME NEW t \in RegisterFileType, t.CPSR = f.CPSR, OwnBank(f, t)
      PROVE  StaysHome(f, Finish(t))
  <2>1. OwnBank(t, arm_write_register(t, rn, base))
    BY <1>2, WriteIsOwn
  <2>2. OwnBank(f, arm_write_register(t, rn, base))
    BY <1>2, <2>1, OwnIsTransitive
  <2>3. QED BY <1>2, <2>2, ReturnsHome
<1>3. ASSUME PC \in list, HasSpsr(current) PROVE StaysHome(f, Finish(restored))
  <2>1. loaded[PC] \in Word /\ PC \in 0 .. 15
    BY <1>3, PcNumber
  <2>2. RestoreCpsr(current) \in RegisterFileType /\ RestoreCpsr(current).CPSR = f.CPSR
    BY <1>1, <1>3, RestoreType, RestoreChangesNothing
  <2>3. OwnBank(current, RestoreCpsr(current))
    BY <1>1, RestoreIsOwn
  <2>4. OwnBank(f, RestoreCpsr(current))
    BY <1>1, <2>3, OwnIsTransitive
  <2>5. OwnBank(RestoreCpsr(current), restored)
    BY <2>1, <2>2, WriteIsOwn
  <2>6. OwnBank(f, restored)
    BY <2>2, <2>4, <2>5, OwnIsTransitive
  <2>7. restored \in RegisterFileType /\ restored.CPSR = f.CPSR
    BY <2>1, <2>2, ArmWriteType, WriteKeepsStatus
  <2> HIDE DEF restored, Finish
  <2>8. QED BY <1>2, <2>6, <2>7
<1>4. ASSUME PC \in list PROVE StaysHome(f, Finish(jumped))
  <2>1. WordAligned(loaded[PC]) \in Word /\ PC \in 0 .. 15
    BY <1>4, PcNumber, AlignedIsWord
  <2>2. OwnBank(current, jumped)
    BY <1>1, <2>1, WriteIsOwn
  <2>3. OwnBank(f, jumped)
    BY <1>1, <2>2, OwnIsTransitive
  <2>4. jumped \in RegisterFileType /\ jumped.CPSR = f.CPSR
    BY <1>1, <2>1, ArmWriteType, WriteKeepsStatus
  <2> HIDE DEF jumped, Finish
  <2>5. QED BY <1>2, <2>3, <2>4
<1>5. StaysHome(f, Finish(f)) /\ StaysHome(f, Finish(current))
  BY <1>1, <1>2, SameIsOwn
<1>6. StaysHome(f, Undefined(f)) /\ StaysHome(f, Undefined(current))
  BY <1>1, SameIsOwn, ReturnsHome
<1>7. QED BY <1>3, <1>4, <1>5, <1>6 DEF arm_load_store_multiple

-----------------------------------------------------------------------------
(* An exception is taken from the mode it interrupts: it saves the context *)
(* in that mode's r14 and SPSR, and the vector goes to r15, which every    *)
(* mode shares.                                                            *)
LEMMA SaveContextIsOwn ==
    ASSUME NEW f \in RegisterFileType, NEW e \in Saving
    PROVE  OwnBank(f, SaveContext(f, e)) /\ SaveContext(f, e).CPSR = f.CPSR
<1> DEFINE linked == arm_write_register(f, 14, restore_pc(f, e))
<1>1. OwnBank(f, linked) /\ linked.CPSR = f.CPSR
  BY PcNumber, WriteIsOwn, WriteKeepsStatus
<1>2. linked \in RegisterFileType
  <2>1. ReturnOffset(e) \in Int
    BY DEF ReturnOffset, Saving, UNDEFINED_INSTRUCTION, PREFETCH_ABORT, DATA_ABORT,
           INTERRUPT, FAST_INTERRUPT
  <2>2. arm_read_register(f, 15) \in Int
    BY PcNumber, ArmReadType, WordIsInt
  <2>3. restore_pc(f, e) \in Word
    BY <2>1, <2>2, ModIsWord DEF restore_pc
  <2>4. QED BY <2>3, PcNumber, ArmWriteType
<1>3. OwnBank(linked, arm_write_spsr(linked, linked.CPSR))
      /\ arm_write_spsr(linked, linked.CPSR).CPSR = linked.CPSR
  BY <1>2, WriteSpsrIsOwn
<1>4. QED BY <1>1, <1>3, OwnIsTransitive DEF SaveContext

(* Entering a handler.                                                     *)
LEMMA EnterHandlerIsOwn ==
    ASSUME NEW f \in RegisterFileType, NEW e
    PROVE  OwnBank(f, EnterHandler(f, e))
<1>1. EnterHandler(f, e)
        = [registers_write_cpsr(f, EntryCpsr(e)) EXCEPT !.genreg[15] = Vector(e)]
  BY DEF EnterHandler, arm_write_register, registers_write, mode_ind, USR_INDEX
<1>2. /\ EnterHandler(f, e).rstat = f.rstat
      /\ \A s \in Slot : s # 15 => EnterHandler(f, e).genreg[s] = f.genreg[s]
  BY <1>1 DEF registers_write_cpsr, RegisterFileType
<1>3. mode_ind(15, registers_get_mode(f)) = 0
  BY DEF mode_ind, USR_INDEX
<1>4. 15 \in BankSlots(f)
  BY <1>3, PcNumber, OwnSlot
<1>5. QED BY <1>2, <1>4 DEF OwnBank

(* The whole of arm_exception.                                             *)
LEMMA ExceptionIsOwn ==
    ASSUME NEW f \in RegisterFileType, NEW e, NEW n
    PROVE  OwnBank(f, arm_exception(f, e, n).reg)
<1>0. \A h, r : Outcome(h, r).reg = h
  BY DEF Outcome
<1>1. CASE e \in Saving
  <2>1. SaveContext(f, e) \in RegisterFileType
    BY <1>1, SaveContextType
  <2>2. OwnBank(SaveContext(f, e), EnterHandler(SaveContext(f, e), e))
    BY <2>1, EnterHandlerIsOwn
  <2>3. OwnBank(f, EnterHandler(SaveContext(f, e), e))
    BY <1>1, <2>2, SaveContextIsOwn, OwnIsTransitive
  <2>4. arm_exception(f, e, n) = Outcome(EnterHandler(SaveContext(f, e), e), e)
    BY <1>1, ExceptionsDiffer DEF arm_exception
  <2>5. QED BY <1>0, <2>3, <2>4
<1>2. CASE e \notin Saving
  <2>1. \/ arm_exception(f, e, n) = Outcome(f, SwiResult(n))
        \/ arm_exception(f, e, n) = Outcome(EnterHandler(f, RESET), RESET)
        \/ arm_exception(f, e, n) = Outcome(f, e)
    BY <1>2 DEF arm_exception
  <2>2. QED BY <1>0, <2>1, SameIsOwn, EnterHandlerIsOwn
<1>3. QED BY <1>1, <1>2

(* A fetch moves the PC.                                                   *)
LEMMA FetchIsOwn == ASSUME NEW f \in RegisterFileType PROVE OwnBank(f, arm_fetch(f))
BY PcNumber, WriteIsOwn DEF arm_fetch

(* A step whose handler stays home reaches the bank it starts in.          *)
LEMMA HomeStep ==
    ASSUME TypeOK, NEW o \in OutcomeType, StaysHome(Fetched, o), NEW n \in SwiNumber, Step(o, n)
    PROVE  OwnBank(p, p')
<1>1. OwnBank(p, Fetched) /\ Fetched.CPSR = p.CPSR
  BY FetchIsOwn, FetchKeepsStatus DEF TypeOK, Fetched
<1>2. OwnBank(p, o.reg)
  BY <1>1, OwnIsTransitive DEF StaysHome
<1>3. CASE o.result # SUCCESSFULLY_DECODED
  <2>1. p' = arm_exception(o.reg, o.result, n).reg
    BY <1>3 DEF Step, arm_step
  <2>2. o.reg.CPSR = p.CPSR
    BY <1>1, <1>3 DEF StaysHome
  <2>3. OwnBank(o.reg, p')
    BY <2>1, ExceptionIsOwn DEF OutcomeType
  <2>4. QED BY <1>2, <2>2, <2>3, OwnIsTransitive
<1>4. CASE o.result = SUCCESSFULLY_DECODED
  BY <1>2, <1>4 DEF Step, arm_step
<1>5. QED BY <1>3, <1>4

(* What LDM^ without the PC may reach: its own bank, as a fetch and a base *)
(* writeback do, and the user bank.  No SPSR changes.                      *)
Spilled(f, g) ==
    /\ \A s \in Slot : g.genreg[s] # f.genreg[s] => s \in BankSlots(f) \cup UserBank
    /\ g.rstat = f.rstat

(* LDM^ without the PC either refuses, and stays home, or spills.          *)
LEMMA UserLoadStep ==
    ASSUME TypeOK, NEW W \in BOOLEAN, NEW list \in RegisterLists, NEW rn \in RegisterNumbers,
           NEW base \in Data, NEW loaded \in [list -> Data], PC \notin list,
           BlockTransfer(TRUE, TRUE, W, list, rn, base, loaded)
    PROVE  OwnBank(p, p') \/ Spilled(p, p')
<1> DEFINE f == Fetched
           user == LoadList(f, list, USR, loaded)
           end == IF W THEN arm_write_register(user, rn, base) ELSE user
           o == arm_load_store_multiple(f, TRUE, TRUE, W, list, rn, base, loaded)
<1>1. /\ f \in RegisterFileType /\ list \in SUBSET (0 .. 15) /\ rn \in 0 .. 15 /\ base \in Word
      /\ loaded \in [list -> Word] /\ "other" \in SwiNumber
  BY FetchedType, InputsAssumption DEF SwiNumber
<1>2. Step(o, "other") /\ o \in OutcomeType
  BY <1>1, BlockTransferType DEF BlockTransfer, Execute
<1>3. o = Undefined(f) \/ o = Done(end)
  BY DEF arm_load_store_multiple
<1>4. CASE o = Undefined(f)
  <2>1. StaysHome(f, o)
    BY <1>4, SameIsOwn, ReturnsHome
  <2> HIDE DEF o
  <2>2. QED BY <1>1, <1>2, <2>1, HomeStep
<1>5. CASE o = Done(end)
  <2>1. p' = end
    <3> HIDE DEF o, end
    <3>1. o.reg = end /\ o.result = SUCCESSFULLY_DECODED
      BY <1>5 DEF Done, Outcome
    <3>2. QED BY <1>2, <3>1 DEF Step, arm_step
  <2>2. /\ user \in RegisterFileType /\ user.CPSR = f.CPSR /\ user.rstat = f.rstat
        /\ \A s \in Slot : user.genreg[s] # f.genreg[s] => s \in UserBank
    BY <1>1, LoadListType, LoadListKeepsStatus, LoadListIsUser
  <2>3. OwnBank(user, end)
    BY <1>1, <2>2, WriteIsOwn, SameIsOwn
  <2>4. end.rstat = user.rstat
    BY <2>2 DEF arm_write_register, registers_write, RegisterFileType
  <2>5. OwnBank(p, f) /\ f.CPSR = p.CPSR
    BY FetchIsOwn, FetchKeepsStatus DEF TypeOK, Fetched
  <2>6. f.rstat = p.rstat
    BY DEF Fetched, arm_fetch, arm_write_register, registers_write, RegisterFileType, TypeOK
  <2>7. BankSlots(f) = BankSlots(p) /\ BankSlots(user) = BankSlots(p)
    BY <2>2, <2>5 DEF BankSlots, registers_get_mode
  <2>8. ASSUME NEW s \in Slot, end.genreg[s] # p.genreg[s]
        PROVE  s \in BankSlots(p) \cup UserBank
    <3> HIDE DEF f, user, end
    <3>1. \/ end.genreg[s] # user.genreg[s] \/ user.genreg[s] # f.genreg[s]
          \/ f.genreg[s] # p.genreg[s]
      BY <2>8
    <3>2. QED BY <2>2, <2>3, <2>5, <2>7, <3>1 DEF OwnBank
  <2>9. QED BY <2>1, <2>2, <2>4, <2>6, <2>8 DEF Spilled
<1>6. QED BY <1>3, <1>4, <1>5

(* Where any step reaches.                                                 *)
LEMMA StepReaches ==
    ASSUME TypeOK, Next
    PROVE  OwnBank(p, p') \/ (LoadUserBank /\ Spilled(p, p'))
<1> DEFINE Home == \E o \in OutcomeType, n \in SwiNumber : StaysHome(Fetched, o) /\ Step(o, n)
<1> USE FetchedType, InputsAssumption
<1>a. "other" \in SwiNumber
  BY DEF SwiNumber
<1>b. StaysHome(Fetched, Done(Fetched)) /\ StaysHome(Fetched, Undefined(Fetched))
  BY SameIsOwn, ReturnsHome
<1>1. ConditionFails => Home
  BY <1>a, <1>b, DoneType DEF ConditionFails, Execute
<1>2. ASSUME NEW link \in BOOLEAN, NEW offset \in Offsets, Branch(link, offset)
      PROVE  Home
  BY <1>a, <1>2, BranchType, BranchStaysHome DEF Branch, Execute
<1>3. ASSUME NEW spsr \in BOOLEAN, NEW rd \in RegisterNumbers, NEW w \in Data, Mrs(spsr, rd, w)
      PROVE  Home
  BY <1>a, <1>3, MrsType, MrsStaysHome DEF Mrs, Execute
<1>4. ASSUME NEW spsr \in BOOLEAN, NEW fields \in FieldMasks, NEW operand \in MsrOperands,
             Msr(spsr, fields, operand)
      PROVE  Home
  BY <1>a, <1>4, MsrType, MsrStaysHome DEF Msr, Execute
<1>5. ASSUME NEW setFlags \in BOOLEAN, NEW changeRd \in BOOLEAN, NEW rd \in RegisterNumbers,
             NEW v \in Data, NEW flags \in Flags,
             DataProcessing(setFlags, rd, changeRd, v, flags)
      PROVE  Home
  <2> DEFINE o == data_processing(Fetched, setFlags, rd, changeRd, v, flags)
  <2>1. o \in OutcomeType /\ StaysHome(Fetched, o)
    BY DataProcessingType, DataProcessingStaysHome
  <2>2. QED BY <1>a, <1>5, <2>1 DEF DataProcessing, Execute
<1>6. ASSUME NEW writeback \in BOOLEAN, NEW load \in BOOLEAN, NEW implemented \in BOOLEAN,
             NEW rn \in RegisterNumbers, NEW rd \in RegisterNumbers, NEW base \in Data,
             NEW v \in Data, LoadStore(writeback, rn, base, load, rd, v, implemented)
      PROVE  Home
  <2> DEFINE o == arm_load_store(Fetched, writeback, rn, base, load, rd, v, implemented)
  <2>1. o \in OutcomeType /\ StaysHome(Fetched, o)
    BY LoadStoreType, LoadStoreStaysHome
  <2>2. QED BY <1>a, <1>6, <2>1 DEF LoadStore, Execute
<1>7. ASSUME NEW load \in BOOLEAN, NEW S \in BOOLEAN, NEW W \in BOOLEAN,
             NEW list \in RegisterLists, NEW rn \in RegisterNumbers, NEW base \in Data,
             NEW loaded \in [list -> Data], BlockTransfer(load, S, W, list, rn, base, loaded)
      PROVE  Home \/ OwnBank(p, p') \/ (LoadUserBank /\ Spilled(p, p'))
  <2> DEFINE o == arm_load_store_multiple(Fetched, load, S, W, list, rn, base, loaded)
  <2>1. CASE load /\ S /\ PC \notin list
    <3>1. load = TRUE /\ S = TRUE
      BY <2>1
    <3>2. BlockTransfer(TRUE, TRUE, W, list, rn, base, loaded)
      BY <1>7, <3>1
    <3>3. LoadUserBank
      BY <2>1, <3>2 DEF LoadUserBank
    <3>4. QED BY <2>1, <3>2, <3>3, UserLoadStep
  <2>2. CASE ~(load /\ S /\ PC \notin list)
    <3>1. loaded \in [list -> Word] /\ list \in SUBSET (0 .. 15)
      OBVIOUS
    <3>2. o \in OutcomeType /\ StaysHome(Fetched, o)
      BY <2>2, <3>1, BlockTransferType, BlockTransferStaysHome
    <3>3. QED BY <1>a, <1>7, <3>2 DEF BlockTransfer, Execute
  <2>3. QED BY <2>1, <2>2
<1>8. Unimplemented => Home
  BY <1>a, <1>b, DoneType DEF Unimplemented, Execute
<1>9. ASSUME NEW n \in SwiNumber, SoftwareInterrupt(n) PROVE Home
  <2>1. Outcome(Fetched, SOFTWARE_INTERRUPT) \in OutcomeType
    BY OutcomeIsTyped
       DEF Result, SOFTWARE_INTERRUPT, SUCCESSFULLY_DECODED, END_SIMULATION
  <2>2. StaysHome(Fetched, Outcome(Fetched, SOFTWARE_INTERRUPT))
    BY SameIsOwn DEF StaysHome, Outcome
  <2>3. QED BY <1>9, <2>1, <2>2 DEF SoftwareInterrupt
<1>10. ASSUME NEW e \in Sent, Interrupt(e) PROVE OwnBank(p, p')
  BY <1>10, ExceptionIsOwn DEF Interrupt, TypeOK
<1> HIDE DEF Home
<1> HIDE FetchedType, InputsAssumption
<1>11. Home => OwnBank(p, p')
  BY HomeStep DEF Home
<1>12. (\E link \in BOOLEAN, offset \in Offsets : Branch(link, offset)) => Home
  BY <1>2
<1>13. (\E spsr \in BOOLEAN, rd \in RegisterNumbers, word \in Data : Mrs(spsr, rd, word)) => Home
  BY <1>3
<1>14. (\E spsr \in BOOLEAN, fields \in FieldMasks, operand \in MsrOperands :
           Msr(spsr, fields, operand)) => Home
  BY <1>4
<1>15. (\E setFlags, changeRd \in BOOLEAN, rd \in RegisterNumbers, v \in Data, flags \in Flags :
           DataProcessing(setFlags, rd, changeRd, v, flags)) => Home
  BY <1>5
<1>16. (\E writeback, load, implemented \in BOOLEAN, rn, rd \in RegisterNumbers, base, v \in Data :
           LoadStore(writeback, rn, base, load, rd, v, implemented)) => Home
  BY <1>6
<1>17. (\E load, S, W \in BOOLEAN, list \in RegisterLists, rn \in RegisterNumbers, base \in Data :
           \E loaded \in [list -> Data] : BlockTransfer(load, S, W, list, rn, base, loaded))
         => Home \/ OwnBank(p, p') \/ (LoadUserBank /\ Spilled(p, p'))
  BY <1>7
<1>18. (\E number \in SwiNumber : SoftwareInterrupt(number)) => Home
  BY <1>9
<1>19. (\E exception \in Sent : Interrupt(exception)) => OwnBank(p, p')
  BY <1>10
<1>20. QED
  BY <1>1, <1>8, <1>11, <1>12, <1>13, <1>14, <1>15, <1>16, <1>17, <1>18, <1>19 DEF Next

(* No instruction and no exception reaches the stack pointer, the link     *)
(* register or the saved status of a mode the processor is not in, but the *)
(* LDM^ that names the user bank (the modes the handlers of                *)
(* src/arm_data_processing.c, src/arm_load_store.c and src/arm_exception.c *)
(* pass down to registers_write).                                          *)
THEOREM OwnBankOnly == Spec => WritesOwnBank
<1> DEFINE Reached ==
       /\ \A s \in Slot : p'.genreg[s] # p.genreg[s] =>
             \/ s \in BankSlots(p)
             \/ AtHandler(p') /\ s \in BankSlots(p')
             \/ LoadUserBank /\ s \in UserBank
       /\ \A m \in ExceptionModes : p'.rstat[StatIndex(m)] # p.rstat[StatIndex(m)] =>
             \/ m = registers_get_mode(p)
             \/ AtHandler(p') /\ m = registers_get_mode(p')
<1>1. OwnBank(p, p') => Reached
  BY DEF OwnBank
<1>2. LoadUserBank /\ Spilled(p, p') => Reached
  BY DEF Spilled
<1> HIDE DEF Reached
<1>3. TypeOK /\ [Next]_vars => [Reached]_vars
  BY <1>1, <1>2, StepReaches
<1>4. WritesOwnBank <=> [][Reached]_vars
  BY DEF WritesOwnBank, Reached
<1>5. QED BY <1>3, <1>4, TypeCorrect, PTL DEF Spec
=============================================================================
