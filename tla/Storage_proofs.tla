--------------------------- MODULE Storage_proofs ---------------------------
(***************************************************************************)
(* Proofs about the register file, for any set of words, any register      *)
(* numbers, any mode field and any status words; and about the memory, for *)
(* every number of byte values, every size of at least a word and every    *)
(* set of addresses.                                                       *)
(***************************************************************************)
EXTENDS RegisterFile, MemoryCalls, Storage_lemmas

-----------------------------------------------------------------------------
(* Type correctness: no sequence of calls writes outside the table or      *)
(* stores anything but words and status words.                             *)
THEOREM TypeCorrect == Spec => []TypeOK
<1> USE DEF ReturnWord, ReturnPsr, Leave
<1>1. Init => TypeOK
  BY CreateType, ZeroIsWord DEF Init, TypeOK, Psr
<1>2. TypeOK /\ [Next]_vars => TypeOK'
  <2> SUFFICES ASSUME TypeOK, [Next]_vars PROVE TypeOK'
    OBVIOUS
  <2> USE DEF TypeOK
  <2>a. 0 \in Word /\ {} \in Psr
    BY ZeroIsWord DEF Psr
  <2>1. ASSUME NEW reg \in RegisterNumbers, NEW mode \in ModeArgs, Read(reg, mode)
        PROVE  TypeOK'
    BY <2>a, <2>1, ReadType, ArgumentsAssumption DEF Read
  <2>2. ASSUME NEW reg \in RegisterNumbers, NEW mode \in ModeArgs, NEW v \in Word,
               Write(reg, mode, v)
        PROVE  TypeOK'
    BY <2>a, <2>2, WriteType, ArgumentsAssumption DEF Write
  <2>3. CASE ReadCpsr
    BY <2>a, <2>3 DEF ReadCpsr, registers_read_cpsr, RegisterFileType
  <2>4. ASSUME NEW v \in Status, WriteCpsr(v) PROVE TypeOK'
    BY <2>a, <2>4, WriteCpsrType, ArgumentsAssumption DEF WriteCpsr
  <2>5. ASSUME NEW mode \in ModeArgs, ReadSpsr(mode) PROVE TypeOK'
    BY <2>a, <2>5, ReadSpsrType DEF ReadSpsr
  <2>6. ASSUME NEW mode \in ModeArgs, NEW v \in Status, WriteSpsr(mode, v)
        PROVE  TypeOK'
    BY <2>a, <2>6, WriteSpsrType, ArgumentsAssumption DEF WriteSpsr
  <2>7. CASE AskSpsr
    BY <2>a, <2>7, AskSpsrType DEF AskSpsr
  <2>8. CASE UNCHANGED vars
    BY <2>8 DEF vars
  <2>9. QED BY <2>1, <2>2, <2>3, <2>4, <2>5, <2>6, <2>7, <2>8 DEF Next
<1>3. QED BY <1>1, <1>2, PTL DEF Spec

-----------------------------------------------------------------------------
(* The 31 names and their slots: which name a mode and a number reach.     *)
LEMMA BankSlots ==
    /\ \A n \in 0 .. 15 : SlotOf(<<"usr", n>>) = n
    /\ \A n \in 8 .. 14 : SlotOf(<<"fiq", n>>) = 80 + n
    /\ \A n \in 13 .. 14 : /\ SlotOf(<<"irq", n>>) = 64 + n
                           /\ SlotOf(<<"svc", n>>) = 16 + n
                           /\ SlotOf(<<"abt", n>>) = 32 + n
                           /\ SlotOf(<<"und", n>>) = 48 + n
BY DEF SlotOf, FirstSlot

(* The slot of each name, by the bank the name is of.                      *)
LEMMA NameShape ==
    ASSUME NEW g \in Names
    PROVE  /\ g = <<g[1], g[2]>>
           /\ \/ g[1] = "usr" /\ g[2] \in 0 .. 15 /\ SlotOf(g) = g[2]
              \/ g[1] = "fiq" /\ g[2] \in 8 .. 14 /\ SlotOf(g) = 80 + g[2]
              \/ g[1] = "irq" /\ g[2] \in 13 .. 14 /\ SlotOf(g) = 64 + g[2]
              \/ g[1] = "svc" /\ g[2] \in 13 .. 14 /\ SlotOf(g) = 16 + g[2]
              \/ g[1] = "abt" /\ g[2] \in 13 .. 14 /\ SlotOf(g) = 32 + g[2]
              \/ g[1] = "und" /\ g[2] \in 13 .. 14 /\ SlotOf(g) = 48 + g[2]
<1>1. g = <<g[1], g[2]>>
  BY DEF Names
<1>2. \/ g[1] = "usr" /\ g[2] \in 0 .. 15
      \/ g[1] = "fiq" /\ g[2] \in 8 .. 14
      \/ g[1] \in {"irq", "svc", "abt", "und"} /\ g[2] \in 13 .. 14
  BY DEF Names
<1>3. QED BY <1>1, <1>2, BankSlots

(* No two physical registers share a slot.                                 *)
LEMMA SlotsDiffer ==
    ASSUME NEW g \in Names, NEW h \in Names, SlotOf(g) = SlotOf(h)
    PROVE  g = h
<1>1. g[1] = h[1] /\ g[2] = h[2]
  BY NameShape
<1>2. QED BY <1>1, NameShape

(* Every physical register has a slot in the table.                        *)
LEMMA SlotsInTable == \A g \in Names : SlotOf(g) \in Slot
BY NameShape DEF Slot

(* BankName and StackBank classify a mode alike.                           *)
LEMMA BankCases ==
    ASSUME NEW mode
    PROVE  \/ mode \in {USR, SYS} /\ BankName(mode) = "usr" /\ StackBank(mode) = 0
           \/ mode = FIQ /\ BankName(mode) = "fiq" /\ StackBank(mode) = 80
           \/ mode = IRQ /\ BankName(mode) = "irq" /\ StackBank(mode) = 64
           \/ mode = SVC /\ BankName(mode) = "svc" /\ StackBank(mode) = 16
           \/ mode = ABT /\ BankName(mode) = "abt" /\ StackBank(mode) = 32
           \/ mode = UND /\ BankName(mode) = "und" /\ StackBank(mode) = 48
           \/ mode \notin Modes /\ BankName(mode) = "none" /\ StackBank(mode) = -1
BY ModesDistinct
   DEF BankName, StackBank, Modes, PrivilegedModes, ExceptionModes, USR_INDEX, SVC_INDEX,
       ABT_INDEX, UND_INDEX, IRQ_INDEX, FIQ_INDEX

(* The register a mode sees under a number is the one its slot holds.      *)
LEMMA VisibleSlot ==
    ASSUME NEW reg \in 0 .. 15, NEW mode
    PROVE  IF mode_ind(reg, mode) = -1
           THEN Banked!Visible(BankName(mode), reg) = {}
           ELSE \E g \in Names : /\ Banked!Visible(BankName(mode), reg) = {g}
                                 /\ SlotOf(g) = mode_ind(reg, mode) + reg
<1> DEFINE b == BankName(mode)
<1>1. CASE reg \in (0 .. 7) \cup {15}
  <2>1. Banked!Visible(b, reg) = {<<"usr", reg>>} /\ mode_ind(reg, mode) = 0
    BY <1>1 DEF Banked!Visible, mode_ind, USR_INDEX
  <2>2. <<"usr", reg>> \in Names /\ SlotOf(<<"usr", reg>>) = reg
    BY BankSlots DEF Names
  <2>3. QED BY <2>1, <2>2
<1>2. CASE reg \in 8 .. 14 /\ mode \notin Modes
  <2>1. b = "none"
    BY <1>2, BankCases, ModesDistinct DEF Modes, PrivilegedModes, ExceptionModes
  <2>2. Banked!Visible(b, reg) = {}
    BY <1>2, <2>1 DEF Banked!Visible
  <2>3. QED BY <1>2, <2>2, ModeIndexValues
<1>3. CASE reg \in 8 .. 12 /\ mode \in Modes
  <2>1. CASE mode = FIQ
    <3>1. mode_ind(reg, mode) = 80 /\ b = "fiq"
      BY <1>3, <2>1, BankCases, ModesDistinct
         DEF mode_ind, FIQ_INDEX, Modes, PrivilegedModes, ExceptionModes
    <3>2. Banked!Visible(b, reg) = {<<"fiq", reg>>}
      BY <1>3, <3>1 DEF Banked!Visible, Banked!Physical
    <3>3. <<"fiq", reg>> \in Names /\ SlotOf(<<"fiq", reg>>) = 80 + reg
      BY <1>3, BankSlots DEF Names
    <3>4. QED BY <3>1, <3>2, <3>3
  <2>2. CASE mode # FIQ
    <3>1. mode_ind(reg, mode) = 0 /\ b \in {"usr", "irq", "svc", "abt", "und"}
      BY <1>3, <2>2, BankCases DEF mode_ind, USR_INDEX
    <3>2. Banked!Visible(b, reg) = {<<"usr", reg>>}
      BY <1>3, <3>1 DEF Banked!Visible, Banked!Physical
    <3>3. <<"usr", reg>> \in Names /\ SlotOf(<<"usr", reg>>) = reg
      BY BankSlots DEF Names
    <3>4. QED BY <3>1, <3>2, <3>3
  <2>3. QED BY <2>1, <2>2
<1>4. CASE reg \in 13 .. 14 /\ mode \in Modes
  <2>1. mode_ind(reg, mode) = StackBank(mode)
    BY <1>4 DEF mode_ind
  <2>2. b \in {"usr", "fiq", "irq", "svc", "abt", "und"}
    BY <1>4, BankCases
  <2>3. <<b, reg>> \in Names /\ Banked!Visible(b, reg) = {<<b, reg>>}
    BY <1>4, <2>2 DEF Banked!Visible, Banked!Physical, Names
  <2>4. SlotOf(<<b, reg>>) = StackBank(mode) + reg
    BY <1>4, BankCases, BankSlots
  <2>5. StackBank(mode) # -1
    BY <1>4, StackBankValues
  <2>6. QED BY <2>1, <2>3, <2>4, <2>5
<1>5. QED BY <1>1, <1>2, <1>3, <1>4

(* The modes with an SPSR are the banks with one, and StatIndex finds it   *)
(* where the mapping says it is kept.                                      *)
LEMMA SpsrBanks ==
    ASSUME NEW mode
    PROVE  /\ mode \in ExceptionModes <=> BankName(mode) \in Banked!ExceptionBanks
           /\ mode \in ExceptionModes => StatIndex(mode) = SpsrSlot[BankName(mode)]
<1>1. mode \in ExceptionModes <=> BankName(mode) \in Banked!ExceptionBanks
  BY BankCases, ModesDistinct DEF Banked!ExceptionBanks, Modes, PrivilegedModes, ExceptionModes
<1>2. mode \in ExceptionModes => StatIndex(mode) = SpsrSlot[BankName(mode)]
  BY BankCases, ModesDistinct
     DEF StatIndex, SpsrSlot, Modes, PrivilegedModes, ExceptionModes
<1> QED BY <1>1, <1>2

(* Every SPSR of the mapping is in the table, and no two share a place.    *)
LEMMA SpsrSlotsDiffer ==
    ASSUME NEW b \in Banked!ExceptionBanks
    PROVE  /\ SpsrSlot[b] \in StatSlot
           /\ \A c \in Banked!ExceptionBanks : SpsrSlot[b] = SpsrSlot[c] => b = c
BY DEF SpsrSlot, StatSlot, Banked!ExceptionBanks

(* The names are those of the abstract specification.                      *)
LEMMA NamesArePhysical == Names = Banked!Physical
BY DEF Names, Banked!Physical

(* So are the banks that have an SPSR.                                     *)
LEMMA BanksAreExceptionBanks == {"fiq", "irq", "svc", "abt", "und"} = Banked!ExceptionBanks
BY DEF Banked!ExceptionBanks

-----------------------------------------------------------------------------
(* One lemma per operation of the file: its effect, seen through the       *)
(* names.                                                                  *)
LEMMA ReadImplements ==
    ASSUME TypeOK, NEW reg \in 0 .. 15, NEW mode, Read(reg, mode)
    PROVE  Banked!Read(reg, mode)
<1> USE DEF ReturnWord
<1> DEFINE V == Banked!Visible(BankName(mode), reg)
<1>1. CASE mode_ind(reg, mode) = -1
  <2>1. V = {} /\ word' = 0
    BY <1>1, VisibleSlot DEF Read, registers_read
  <2>2. QED BY <2>1 DEF Read, Banked!Read
<1>2. CASE mode_ind(reg, mode) # -1
  <2>1. PICK g \in Names : V = {g} /\ SlotOf(g) = mode_ind(reg, mode) + reg
    BY <1>2, VisibleSlot
  <2>2. (CHOOSE h \in V : TRUE) = g /\ V # {}
    BY <2>1
  <2>3. word' = [h \in Names |-> r.genreg[SlotOf(h)]][g]
    BY <1>2, <2>1 DEF Read, registers_read
  <2>4. QED BY <2>2, <2>3 DEF Read, Banked!Read
<1>3. QED BY <1>1, <1>2

(* registers_write is the write of one physical register, or of none.      *)
LEMMA WriteImplements ==
    ASSUME TypeOK, NEW reg \in 0 .. 15, NEW mode, NEW v \in Word, Write(reg, mode, v)
    PROVE  Banked!Write(reg, mode, v)
<1> USE DEF Leave
<1> DEFINE V == Banked!Visible(BankName(mode), reg)
<1>1. r'.CPSR = r.CPSR /\ r'.rstat = r.rstat
  BY DEF TypeOK, RegisterFileType, Write, registers_write
<1>2. \A h \in Names : r'.genreg[SlotOf(h)] = IF h \in V THEN v ELSE r.genreg[SlotOf(h)]
  <2>1. CASE mode_ind(reg, mode) = -1
    BY <2>1, VisibleSlot DEF Write, registers_write
  <2>2. CASE mode_ind(reg, mode) # -1
    <3>1. PICK g \in Names : V = {g} /\ SlotOf(g) = mode_ind(reg, mode) + reg
      BY <2>2, VisibleSlot
    <3>2. r'.genreg = [r.genreg EXCEPT ![SlotOf(g)] = v]
      BY <2>2, <3>1 DEF TypeOK, RegisterFileType, Write, registers_write
    <3>3. ASSUME NEW h \in Names
          PROVE  r'.genreg[SlotOf(h)] = IF h \in V THEN v ELSE r.genreg[SlotOf(h)]
      BY <3>1, <3>2, SlotsDiffer, SlotsInTable DEF TypeOK, RegisterFileType
    <3>4. QED BY <3>3
  <2>3. QED BY <2>1, <2>2
<1>3. [g \in Names |-> r'.genreg[SlotOf(g)]] =
        [g \in Banked!Physical |-> IF g \in V THEN v ELSE [h \in Names |-> r.genreg[SlotOf(h)]][g]]
  BY <1>2, NamesArePhysical
<1>4. QED BY <1>1, <1>3 DEF Write, Banked!Write

(* registers_read_spsr reads the SPSR of the bank, or zero.                *)
LEMMA ReadSpsrImplements ==
    ASSUME TypeOK, NEW mode, ReadSpsr(mode)
    PROVE  Banked!ReadSpsr(mode)
BY SpsrBanks, BanksAreExceptionBanks
   DEF ReadSpsr, ReturnPsr, registers_read_spsr, Banked!ReadSpsr

(* Also the query's side effect, which is a write of an SPSR.              *)
LEMMA WriteSpsrImplements ==
    ASSUME TypeOK, NEW mode, NEW v \in Psr, Leave(registers_write_spsr(r, mode, v))
    PROVE  Banked!WriteSpsr(mode, v)
<1> USE DEF Leave
<1>1. r'.CPSR = r.CPSR /\ r'.genreg = r.genreg
  BY DEF TypeOK, RegisterFileType, registers_write_spsr
<1>2. ASSUME NEW b \in Banked!ExceptionBanks
      PROVE  r'.rstat[SpsrSlot[b]] = IF b = BankName(mode) THEN v ELSE r.rstat[SpsrSlot[b]]
  <2>1. CASE mode \in ExceptionModes
    <3>1. r'.rstat = [r.rstat EXCEPT ![SpsrSlot[BankName(mode)]] = v]
      BY <2>1, SpsrBanks DEF TypeOK, RegisterFileType, registers_write_spsr
    <3>2. BankName(mode) \in Banked!ExceptionBanks /\ r.rstat \in [StatSlot -> Psr]
      BY <2>1, SpsrBanks DEF TypeOK, RegisterFileType
    <3> QED BY <3>1, <3>2, SpsrSlotsDiffer
  <2>2. CASE mode \notin ExceptionModes
    BY <2>2, SpsrBanks DEF registers_write_spsr
  <2> QED BY <2>1, <2>2
<1>3. QED BY <1>1, <1>2, BanksAreExceptionBanks DEF Banked!WriteSpsr

(* The table of src/registers.c implements 31 general registers and 6      *)
(* status registers that do not alias, call by call, for every word set,   *)
(* register number and mode field: what the run storage checks on two      *)
(* numbers and five fields.                                                *)
THEOREM TableImplementsBanks == Spec => ImplementsBanks
<1>1. Init => Banked!Init
  <2> SUFFICES ASSUME Init PROVE Banked!Init
    OBVIOUS
  <2>1. \A g \in Names : r.genreg[SlotOf(g)] = 0
    BY SlotsInTable DEF Init, registers_create
  <2>2. \A b \in Banked!ExceptionBanks : r.rstat[SpsrSlot[b]] = {}
    BY SpsrSlotsDiffer DEF Init, registers_create
  <2>3. r.CPSR = {} /\ word = 0 /\ psr = {}
    BY DEF Init, registers_create
  <2>4. QED BY <2>1, <2>2, <2>3, NamesArePhysical, BanksAreExceptionBanks DEF Banked!Init
<1>2. TypeOK => SameCall
  <2> SUFFICES ASSUME TypeOK PROVE SameCall
    OBVIOUS
  <2>1. ASSUME NEW reg \in RegisterNumbers, NEW mode \in ModeArgs
        PROVE  /\ Read(reg, mode) => Banked!Read(reg, mode)
               /\ \A v \in Word : Write(reg, mode, v) => Banked!Write(reg, mode, v)
    BY ReadImplements, WriteImplements, ArgumentsAssumption
  <2>2. ReadCpsr => Banked!ReadCpsr
    BY DEF ReadCpsr, ReturnPsr, registers_read_cpsr, Banked!ReadCpsr
  <2>3. ASSUME NEW v \in Status, WriteCpsr(v) PROVE Banked!WriteCpsr(v)
    <3>1. r'.CPSR = v /\ r'.genreg = r.genreg /\ r'.rstat = r.rstat
      BY <2>3 DEF WriteCpsr, Leave, registers_write_cpsr, TypeOK, RegisterFileType
    <3> QED BY <2>3, <3>1 DEF WriteCpsr, Leave, Banked!WriteCpsr
  <2>4. ASSUME NEW mode \in ModeArgs
        PROVE  /\ ReadSpsr(mode) => Banked!ReadSpsr(mode)
               /\ \A v \in Status :
                     WriteSpsr(mode, v) => Banked!WriteSpsr(mode, v)
    BY ReadSpsrImplements, WriteSpsrImplements, ArgumentsAssumption DEF WriteSpsr
  <2>5. ASSUME AskSpsr PROVE Banked!AskSpsr
    <3>1. r.CPSR \in Psr /\ PsrMode(r.CPSR) = registers_get_mode(r)
      BY DEF TypeOK, RegisterFileType, PsrMode, registers_get_mode
    <3>2. PICK m : m = PsrMode(r.CPSR)
      OBVIOUS
    <3>3. PICK s \in Psr : s = r.CPSR
      BY <3>1
    <3>4. Leave(registers_write_spsr(r, m, s))
      BY <2>5, <3>1, <3>2, <3>3 DEF AskSpsr, registers_current_mode_has_spsr, Leave
    <3>5. Banked!WriteSpsr(m, s)
      BY <3>4, WriteSpsrImplements
    <3> QED BY <3>2, <3>3, <3>5 DEF Banked!AskSpsr, Banked!WriteSpsr
  <2> QED BY <2>1, <2>2, <2>3, <2>4, <2>5 DEF SameCall
<1>3. TypeOK => [UNCHANGED vars \/ SameCall]_vars
  BY <1>2
<1> QED BY <1>1, <1>3, TypeCorrect, PTL DEF Spec, ImplementsBanks

-----------------------------------------------------------------------------
(* The flat memory takes the same digits.                                  *)
LEMMA DigitsAreBytes ==
    ASSUME NEW v \in Nat, NEW i \in 0 .. 3 PROVE Flat!Digit(v, i) = ByteOf(v, i)
<1>1. CASE i = 0
  <2>1. v \div 1 = v
    OBVIOUS
  <2> QED BY <1>1, <2>1 DEF Flat!Digit, Flat!Weight, ByteOf
<1>2. CASE i = 1 BY <1>2 DEF Flat!Digit, Flat!Weight, ByteOf
<1>3. CASE i = 2 BY <1>3 DEF Flat!Digit, Flat!Weight, ByteOf
<1>4. CASE i = 3 BY <1>4 DEF Flat!Digit, Flat!Weight, ByteOf
<1> QED BY <1>1, <1>2, <1>3, <1>4

(* Its numbers of one, two and four digits are the three types.            *)
LEMMA NumbersOfWidth == /\ Flat!Numbers(1) = Byte
                        /\ Flat!Numbers(2) = HalfWord
                        /\ Flat!Numbers(4) = FullWord
BY DEF Flat!Numbers, Flat!Weight, Byte, HalfWord, FullWord

(* The types hold at every call.                                           *)
THEOREM CallsAreTyped == CallsSpec => []CallsTypeOK
<1>1. CallsInit => CallsTypeOK
  BY Powers DEF CallsInit, CallsTypeOK, FullWord, SUCCESS
<1>2. CallsTypeOK /\ [CallsNext]_calls => CallsTypeOK'
  <2> SUFFICES ASSUME CallsTypeOK, [CallsNext]_calls PROVE CallsTypeOK'
    OBVIOUS
  <2>1. CASE UNCHANGED calls BY <2>1 DEF calls, CallsTypeOK
  <2>2. ASSUME Refuse PROVE CallsTypeOK'
    BY <2>2 DEF Refuse, CallsTypeOK
  <2>3. ASSUME NEW v \in FullWord, Load(v) PROVE CallsTypeOK'
    BY <2>3 DEF Load, CallsTypeOK
  <2>4. ASSUME NEW m \in Contents, Store(m) PROVE CallsTypeOK'
    BY <2>4 DEF Store, CallsTypeOK
  <2>5. ASSUME NEW a \in Addresses, ReadByte(a) PROVE CallsTypeOK'
    BY <2>2, <2>3, <2>5, AccessesAreTyped, AddressesAssumption DEF ReadByte, CallsTypeOK
  <2>6. ASSUME NEW a \in Addresses, NEW be \in BOOLEAN, ReadHalf(a, be) PROVE CallsTypeOK'
    BY <2>2, <2>3, <2>6, AccessesAreTyped, AddressesAssumption DEF ReadHalf, CallsTypeOK
  <2>7. ASSUME NEW a \in Addresses, NEW be \in BOOLEAN, ReadWord(a, be) PROVE CallsTypeOK'
    BY <2>2, <2>3, <2>7, AccessesAreTyped, AddressesAssumption DEF ReadWord, CallsTypeOK
  <2>8. ASSUME NEW a \in Addresses, NEW v \in Byte, WriteByte(a, v) PROVE CallsTypeOK'
    BY <2>2, <2>4, <2>8, AccessesAreTyped, AddressesAssumption DEF WriteByte, CallsTypeOK
  <2>9. ASSUME NEW a \in Addresses, NEW be \in BOOLEAN, NEW v \in HalfWord, WriteHalf(a, v, be)
        PROVE  CallsTypeOK'
    BY <2>2, <2>4, <2>9, AccessesAreTyped, AddressesAssumption DEF WriteHalf, CallsTypeOK
  <2>10. ASSUME NEW a \in Addresses, NEW be \in BOOLEAN, NEW v \in FullWord, WriteWord(a, v, be)
         PROVE  CallsTypeOK'
    BY <2>2, <2>4, <2>10, AccessesAreTyped, AddressesAssumption DEF WriteWord, CallsTypeOK
  <2> QED BY <2>1, <2>5, <2>6, <2>7, <2>8, <2>9, <2>10 DEF CallsNext
<1> QED BY <1>1, <1>2, PTL DEF CallsSpec

-----------------------------------------------------------------------------
(* A test that refuses is the flat memory's refusal.                       *)
LEMMA RefusalsAgree ==
    ASSUME NEW a \in Nat, Refuse,
           NEW n \in {1, 2, 4},
           \/ n = 1 /\ byte_refused(a)
           \/ n = 2 /\ half_refused(a)
           \/ n = 4 /\ word_refused(a)
    PROVE  Flat!Refuse(a, n)
<1>1. ~Flat!Inside(a, n)
  BY MemoryAssumption DEF Flat!Inside, byte_refused, half_refused, word_refused
<1> QED BY <1>1 DEF Refuse, Flat!Refuse, INDEX_OUT_OF_RANGE

(* A read that is let through is the flat memory's read.                   *)
LEMMA ReadsAgree ==
    ASSUME CallsTypeOK, NEW a \in Nat, NEW be \in BOOLEAN
    PROVE  /\ ~byte_refused(a) /\ Load(memory_read_byte(data, a)) => Flat!Read(a, 1, be)
           /\ ~half_refused(a) /\ Load(memory_read_half(data, a, be)) => Flat!Read(a, 2, be)
           /\ ~word_refused(a) /\ Load(memory_read_word(data, a, be)) => Flat!Read(a, 4, be)
<1>1. Size \in Nat /\ Size >= 4 /\ data \in [0 .. (Size - 1) -> Byte]
  BY MemoryAssumption DEF CallsTypeOK, Contents, Address
<1>2. ASSUME ~byte_refused(a), Load(memory_read_byte(data, a)) PROVE Flat!Read(a, 1, be)
  <2>1. a + 1 <= Size /\ value' = data[a] /\ data[a] \in Byte
    BY <1>1, <1>2 DEF byte_refused, Load, memory_read_byte
  <2>2. \A i \in 0 .. (1 - 1) : i = 0
    OBVIOUS
  <2>3. Flat!Digit(data[a], 0) = data[a]
    <3>1. data[a] \in Nat /\ data[a] % ByteMod = data[a]
      BY <2>1, Powers DEF Byte
    <3> QED BY <3>1, DigitsAreBytes DEF ByteOf
  <2>4. Flat!Cell(a, 1, be, 0) = a
    BY DEF Flat!Cell
  <2> QED BY <1>2, <2>1, <2>2, <2>3, <2>4, NumbersOfWidth
          DEF Flat!Read, Flat!Inside, Load, SUCCESS, INDEX_OUT_OF_RANGE
<1>3. ASSUME ~half_refused(a), Load(memory_read_half(data, a, be)) PROVE Flat!Read(a, 2, be)
  <2> DEFINE v == memory_read_half(data, a, be)
  <2>1. a + 2 <= Size /\ data[a] \in Byte /\ data[a + 1] \in Byte
    BY <1>1, <1>3 DEF half_refused
  <2>2. v \in HalfWord
    BY <2>1, TwoDigits DEF memory_read_half
  <2>3. v \in Nat
    BY <2>2, NumbersAreNatural
  <2>4. /\ ByteOf(v, 0) = data[Flat!Cell(a, 2, be, 0)]
        /\ ByteOf(v, 1) = data[Flat!Cell(a, 2, be, 1)]
    <3>1. Flat!Cell(a, 2, be, 0) = (IF be THEN a + 1 ELSE a)
      BY DEF Flat!Cell
    <3>2. Flat!Cell(a, 2, be, 1) = (IF be THEN a ELSE a + 1)
      BY DEF Flat!Cell
    <3>3. \A b \in Byte : b % ByteMod = b
      BY Powers DEF Byte
    <3> QED BY <2>1, <3>1, <3>2, <3>3, TwoDigits DEF memory_read_half, ByteOf
  <2> HIDE DEF v
  <2>5. \A i \in 0 .. (2 - 1) : Flat!Digit(v, i) = data[Flat!Cell(a, 2, be, i)]
    <3>1. \A i \in 0 .. (2 - 1) : i \in 0 .. 3 /\ (i = 0 \/ i = 1)
      OBVIOUS
    <3> QED BY <2>3, <2>4, <3>1, DigitsAreBytes
  <2>6. value' = v /\ UNCHANGED data /\ result' = SUCCESS
    BY <1>3 DEF Load, v
  <2> QED BY <2>1, <2>2, <2>5, <2>6, NumbersOfWidth
          DEF Flat!Read, Flat!Inside, SUCCESS, INDEX_OUT_OF_RANGE
<1>4. ASSUME ~word_refused(a), Load(memory_read_word(data, a, be)) PROVE Flat!Read(a, 4, be)
  <2> DEFINE v == memory_read_word(data, a, be)
  <2>1. /\ a + 4 <= Size
        /\ data[a] \in Byte /\ data[a + 1] \in Byte
        /\ data[a + 2] \in Byte /\ data[a + 3] \in Byte
    BY <1>1, <1>4 DEF word_refused
  <2>2. /\ v \in FullWord
        /\ \A i \in 0 .. 3 : ByteOf(v, i) = data[IF be THEN a + (3 - i) ELSE a + i]
    <3>1. CASE be = TRUE
      <4>1. v = TwoBytes(data[a], data[a + 1]) * (ByteMod * ByteMod)
                  + TwoBytes(data[a + 2], data[a + 3])
        BY <3>1 DEF memory_read_word
      <4> HIDE DEF v
      <4>2. \A i \in 0 .. 3 : i = 0 \/ i = 1 \/ i = 2 \/ i = 3
        OBVIOUS
      <4> QED BY <2>1, <3>1, <4>1, <4>2, FourDigits DEF ByteOf
    <3>2. CASE be = FALSE
      <4>1. v = TwoBytes(data[a + 3], data[a + 2]) * (ByteMod * ByteMod)
                  + TwoBytes(data[a + 1], data[a])
        BY <3>2 DEF memory_read_word
      <4> HIDE DEF v
      <4>2. \A i \in 0 .. 3 : i = 0 \/ i = 1 \/ i = 2 \/ i = 3
        OBVIOUS
      <4> QED BY <2>1, <3>2, <4>1, <4>2, FourDigits DEF ByteOf
    <3> QED BY <3>1, <3>2
  <2>3. v \in Nat
    BY <2>2, NumbersAreNatural
  <2> HIDE DEF v
  <2>4. \A i \in 0 .. (4 - 1) : Flat!Digit(v, i) = data[Flat!Cell(a, 4, be, i)]
    <3>1. \A i \in 0 .. (4 - 1) : i \in 0 .. 3
      OBVIOUS
    <3>2. \A i \in 0 .. 3 : Flat!Cell(a, 4, be, i) = (IF be THEN a + (3 - i) ELSE a + i)
      BY DEF Flat!Cell
    <3> QED BY <2>2, <2>3, <3>1, <3>2, DigitsAreBytes
  <2>5. value' = v /\ UNCHANGED data /\ result' = SUCCESS
    BY <1>4 DEF Load, v
  <2> QED BY <2>1, <2>2, <2>4, <2>5, NumbersOfWidth
          DEF Flat!Read, Flat!Inside, SUCCESS, INDEX_OUT_OF_RANGE
<1> QED BY <1>2, <1>3, <1>4

(* A write that is let through is the flat memory's write.                 *)
LEMMA WritesAgree ==
    ASSUME CallsTypeOK, NEW a \in Nat, NEW be \in BOOLEAN
    PROVE  /\ \A v \in Byte :
                 ~byte_refused(a) /\ Store(memory_write_byte(data, a, v))
                    => Flat!Write(a, 1, be, v)
           /\ \A v \in HalfWord :
                 ~half_refused(a) /\ Store(memory_write_half(data, a, v, be))
                    => Flat!Write(a, 2, be, v)
           /\ \A v \in FullWord :
                 ~word_refused(a) /\ Store(memory_write_word(data, a, v, be))
                    => Flat!Write(a, 4, be, v)
<1>1. /\ Size \in Nat /\ Size >= 4 /\ data \in [0 .. (Size - 1) -> Byte]
      /\ Address = 0 .. (Size - 1) /\ Flat!Address = 0 .. (Size - 1)
  BY MemoryAssumption DEF CallsTypeOK, Contents, Address, Flat!Address
<1>2. Byte = 0 .. (ByteMod - 1)
  BY DEF Byte
<1>3. ASSUME NEW v \in Byte, ~byte_refused(a), Store(memory_write_byte(data, a, v))
      PROVE  Flat!Write(a, 1, be, v)
  <2>1. a + 1 <= Size /\ a \in Address
    BY <1>1, <1>3 DEF byte_refused
  <2>2. data' = memory_write_byte(data, a, v) /\ data' \in [Flat!Address -> Byte]
    BY <1>1, <1>3, AccessesAreTyped DEF Store, CallsTypeOK, Contents
  <2>3. \A i \in 0 .. (1 - 1) : data'[Flat!Cell(a, 1, be, i)] = Flat!Digit(v, i)
    <3>1. \A i \in 0 .. (1 - 1) : i = 0 /\ i \in 0 .. 3
      OBVIOUS
    <3>2. v \in Nat /\ v % ByteMod = v
      BY Powers DEF Byte
    <3>3. Flat!Digit(v, 0) = v
      BY <3>2, DigitsAreBytes DEF ByteOf
    <3>4. data'[a] = v
      BY <1>1, <2>1, <2>2 DEF memory_write_byte
    <3>5. Flat!Cell(a, 1, be, 0) = a
      BY DEF Flat!Cell
    <3> QED BY <3>1, <3>3, <3>4, <3>5
  <2>4. \A c \in Flat!Address \ (a .. (a + 1 - 1)) : data'[c] = data[c]
    BY <1>1, <2>1, <2>2 DEF memory_write_byte
  <2> QED BY <1>2, <1>3, <2>1, <2>2, <2>3, <2>4
          DEF Flat!Write, Flat!Inside, Store, SUCCESS, INDEX_OUT_OF_RANGE
<1>4. ASSUME NEW v \in HalfWord, ~half_refused(a), Store(memory_write_half(data, a, v, be))
      PROVE  Flat!Write(a, 2, be, v)
  <2>1. a + 2 <= Size /\ a \in Address /\ a + 1 \in Address
    BY <1>1, <1>4 DEF half_refused
  <2>2. data' = memory_write_half(data, a, v, be) /\ data' \in [Flat!Address -> Byte]
    BY <1>1, <1>4, AccessesAreTyped DEF Store, CallsTypeOK, Contents
  <2>3. \A i \in 0 .. (2 - 1) : data'[Flat!Cell(a, 2, be, i)] = Flat!Digit(v, i)
    <3>1. \A i \in 0 .. (2 - 1) : i \in 0 .. 3 /\ (i = 0 \/ i = 1)
      OBVIOUS
    <3>2. v \in Nat
      BY NumbersAreNatural
    <3>3. /\ Flat!Cell(a, 2, be, 0) = (IF be THEN a + 1 ELSE a)
          /\ Flat!Cell(a, 2, be, 1) = (IF be THEN a ELSE a + 1)
      BY DEF Flat!Cell
    <3>4. /\ data'[a] = ByteOf(v, IF be THEN 1 ELSE 0)
          /\ data'[a + 1] = ByteOf(v, IF be THEN 0 ELSE 1)
      BY <2>1, <2>2 DEF memory_write_half
    <3>5. /\ data'[Flat!Cell(a, 2, be, 0)] = ByteOf(v, 0)
          /\ data'[Flat!Cell(a, 2, be, 1)] = ByteOf(v, 1)
      BY <3>3, <3>4
    <3> QED BY <3>1, <3>2, <3>5, DigitsAreBytes
  <2>4. \A c \in Flat!Address \ (a .. (a + 2 - 1)) : data'[c] = data[c]
    BY <1>1, <2>1, <2>2 DEF memory_write_half
  <2> QED BY <1>2, <1>4, <2>1, <2>2, <2>3, <2>4
          DEF Flat!Write, Flat!Inside, Store, SUCCESS, INDEX_OUT_OF_RANGE
<1>5. ASSUME NEW v \in FullWord, ~word_refused(a), Store(memory_write_word(data, a, v, be))
      PROVE  Flat!Write(a, 4, be, v)
  <2>1. a + 4 <= Size
    BY <1>1, <1>5 DEF word_refused
  <2>2. data' = memory_write_word(data, a, v, be) /\ data' \in [Flat!Address -> Byte]
    BY <1>1, <1>5, AccessesAreTyped DEF Store, CallsTypeOK, Contents
  <2>3. \A i \in 0 .. (4 - 1) : data'[Flat!Cell(a, 4, be, i)] = Flat!Digit(v, i)
    <3> SUFFICES ASSUME NEW i \in 0 .. (4 - 1)
                 PROVE  data'[Flat!Cell(a, 4, be, i)] = Flat!Digit(v, i)
      OBVIOUS
    <3>1. v \in Nat /\ i \in 0 .. 3
      BY NumbersAreNatural
    <3>2. Flat!Cell(a, 4, be, i) = (IF be THEN a + (3 - i) ELSE a + i)
      BY DEF Flat!Cell
    <3>3. \A c \in a .. (a + 3) :
             data'[c] = ByteOf(v, IF be THEN 3 - (c - a) ELSE c - a)
      BY <1>1, <2>1, <2>2 DEF memory_write_word
    <3>4. data'[Flat!Cell(a, 4, be, i)] = ByteOf(v, i)
      <4>1. CASE be = TRUE
        <5>1. a + (3 - i) \in a .. (a + 3) /\ 3 - ((a + (3 - i)) - a) = i
          BY <3>1
        <5> QED BY <3>2, <3>3, <4>1, <5>1
      <4>2. CASE be = FALSE
        <5>1. a + i \in a .. (a + 3) /\ (a + i) - a = i
          BY <3>1
        <5> QED BY <3>2, <3>3, <4>2, <5>1
      <4> QED BY <4>1, <4>2
    <3> QED BY <3>1, <3>4, DigitsAreBytes
  <2>4. \A c \in Flat!Address \ (a .. (a + 4 - 1)) : data'[c] = data[c]
    BY <1>1, <2>1, <2>2 DEF memory_write_word
  <2> QED BY <1>2, <1>5, <2>1, <2>2, <2>3, <2>4
          DEF Flat!Write, Flat!Inside, Store, SUCCESS, INDEX_OUT_OF_RANGE
<1> QED BY <1>3, <1>4, <1>5

(* The six accesses implement one flat memory, call by call, for every     *)
(* size and every number of byte values.                                   *)
THEOREM MemoryIsFlat == CallsSpec => ImplementsFlatMemory
<1> DEFINE Calls ==
      \A a \in Addresses, be \in BOOLEAN :
         /\ ReadByte(a)     => Flat!ReadCall(a, 1, be)
         /\ ReadHalf(a, be) => Flat!ReadCall(a, 2, be)
         /\ ReadWord(a, be) => Flat!ReadCall(a, 4, be)
         /\ \A v \in Byte     : WriteByte(a, v) => Flat!WriteCall(a, 1, be, v)
         /\ \A v \in HalfWord : WriteHalf(a, v, be) => Flat!WriteCall(a, 2, be, v)
         /\ \A v \in FullWord : WriteWord(a, v, be) => Flat!WriteCall(a, 4, be, v)
<1>1. CallsInit => Flat!Init
  BY DEF CallsInit, Flat!Init, Contents, Address, Byte, Flat!Address, SUCCESS, INDEX_OUT_OF_RANGE
<1>2. CallsTypeOK => Calls
  <2> SUFFICES ASSUME CallsTypeOK, NEW a \in Addresses, NEW be \in BOOLEAN
               PROVE  /\ ReadByte(a)     => Flat!ReadCall(a, 1, be)
                      /\ ReadHalf(a, be) => Flat!ReadCall(a, 2, be)
                      /\ ReadWord(a, be) => Flat!ReadCall(a, 4, be)
                      /\ \A v \in Byte     : WriteByte(a, v) => Flat!WriteCall(a, 1, be, v)
                      /\ \A v \in HalfWord :
                            WriteHalf(a, v, be) => Flat!WriteCall(a, 2, be, v)
                      /\ \A v \in FullWord :
                            WriteWord(a, v, be) => Flat!WriteCall(a, 4, be, v)
    OBVIOUS
  <2>1. a \in Nat
    BY AddressesAssumption
  <2>2. /\ byte_refused(a) /\ Refuse => Flat!Refuse(a, 1)
        /\ half_refused(a) /\ Refuse => Flat!Refuse(a, 2)
        /\ word_refused(a) /\ Refuse => Flat!Refuse(a, 4)
    BY <2>1, RefusalsAgree
  <2>3. /\ ReadByte(a)     => Flat!ReadCall(a, 1, be)
        /\ ReadHalf(a, be) => Flat!ReadCall(a, 2, be)
        /\ ReadWord(a, be) => Flat!ReadCall(a, 4, be)
    BY <2>1, <2>2, ReadsAgree DEF ReadByte, ReadHalf, ReadWord, Flat!ReadCall
  <2>4. /\ \A v \in Byte     : WriteByte(a, v) => Flat!WriteCall(a, 1, be, v)
        /\ \A v \in HalfWord : WriteHalf(a, v, be) => Flat!WriteCall(a, 2, be, v)
        /\ \A v \in FullWord : WriteWord(a, v, be) => Flat!WriteCall(a, 4, be, v)
    BY <2>1, <2>2, WritesAgree DEF WriteByte, WriteHalf, WriteWord, Flat!WriteCall
  <2> QED BY <2>3, <2>4
<1>3. CallsTypeOK => [Calls]_calls
  BY <1>2
<1>4. CallsSpec => []CallsTypeOK
  BY CallsAreTyped
<1> QED BY <1>1, <1>3, <1>4, PTL DEF CallsSpec, ImplementsFlatMemory
=============================================================================
