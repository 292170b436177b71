----------------------------- MODULE LoadStore -----------------------------
(***************************************************************************)
(* Loads and stores (src/arm_load_store.c) on the register file and the    *)
(* memory: which addresses an instruction touches, in what order, and what *)
(* it loads or stores there (the memory accesses of src/arm_core.c).       *)
(*                                                                         *)
(* The register side of a step is ArmCpu's: here its inputs, the base that *)
(* is written back and the words that are loaded, come from the fields of  *)
(* the instruction, the registers and the memory.                          *)
(***************************************************************************)
EXTENDS ArmMachine, Shifts, FiniteSets

CONSTANTS BigEndian,         \* ENDIANESS
          Garbage,           \* what an uninitialised local may hold
          BaseRegisters,     \* Rn
          DataRegisters,     \* Rd
          OffsetRegister,    \* Rm
          Amounts,           \* immediate offsets and shift amounts
          Lists,             \* register lists of the block transfers
          Starts,            \* register files a program may start from
          InitialContents    \* memory contents a program may start from

ASSUME LoadStoreAssumption ==
    /\ MachineAssumption
    /\ ShiftsAssumption
    /\ WordMod = Modulus
    /\ WordMod >= 64                  \* the registers of a list have words of their own
    /\ BigEndian \in BOOLEAN
    /\ Garbage \subseteq Word /\ Garbage # {}
    /\ BaseRegisters \cup DataRegisters \cup {OffsetRegister} \subseteq 0 .. 15
    /\ Amounts \subseteq Immediate
    /\ Lists \subseteq SUBSET (0 .. 15)
    /\ Starts \subseteq RegisterFileType
    /\ InitialContents \subseteq Contents

VARIABLES ins,           \* the last instruction
          asserted       \* the assertions evaluated so far all held

program == <<machine, ins, asserted>>

Plus(a, b)  == (a + b) % WordMod
Minus(a, b) == (a - b) % WordMod

-----------------------------------------------------------------------------
(* Single transfers.  P, U, W and the class give the address; kind is read *)
(* by the scaled class only; a half-word encoding with "other" in size is  *)
(* one whose S and H bits name no transfer the simulator has.              *)
Transfers ==
    [class : {"immediate", "register"}, P : BOOLEAN, U : BOOLEAN, W : BOOLEAN, load : BOOLEAN,
     size : {"byte", "word"}, rn : BaseRegisters, rd : DataRegisters, amount : Amounts,
     kind : {"LSL"}]
      \cup
    [class : {"scaled"}, P : BOOLEAN, U : BOOLEAN, W : BOOLEAN, load : BOOLEAN,
     size : {"byte", "word"}, rn : BaseRegisters, rd : DataRegisters, amount : Amounts,
     kind : Kinds]
      \cup
    [class : {"half immediate", "half register"}, P : BOOLEAN, U : BOOLEAN, W : BOOLEAN,
     load : BOOLEAN, size : {"half", "other"}, rn : BaseRegisters, rd : DataRegisters,
     amount : Amounts, kind : {"LSL"}]

CarryFlag(q) == IF 29 \in q.CPSR THEN 1 ELSE 0

Offset(q, t) ==
    CASE t.class \in {"immediate", "half immediate"} -> t.amount
      [] t.class \in {"register", "half register"}   -> arm_read_register(q, OffsetRegister)
      [] t.class = "scaled" ->
            shift_operation(t.kind, arm_read_register(q, OffsetRegister), t.amount, CarryFlag(q))

(* check_U                                                                 *)
Moved(base, offset, U) == IF U THEN Plus(base, offset) ELSE Minus(base, offset)

Indexed(q, t) == Moved(arm_read_register(q, t.rn), Offset(q, t), t.U)

(* Post-indexed with W: two classes refuse it, the others leave the        *)
(* address uninitialised.                                                  *)
Refused(t)     == t.class \in {"immediate", "register"} /\ ~t.P /\ t.W
Unaddressed(t) == t.class \notin {"immediate", "register"} /\ ~t.P /\ t.W
WritesBack(t)  == t.P = t.W

Reached(q, t) == IF Unaddressed(t) THEN Garbage
                 ELSE IF t.P THEN {Indexed(q, t)} ELSE {arm_read_register(q, t.rn)}

(* What a read leaves in the local it is given: a refused one, whatever    *)
(* was there.  The local of LDRB is a byte and that of LDRH a half word.   *)
Loaded(size, address) ==
    CASE size = "byte" -> IF byte_refused(address) THEN {g % ByteMod : g \in Garbage}
                          ELSE {memory_read_byte(m, address)}
      [] size = "half" -> IF half_refused(address) THEN {g % (ByteMod * ByteMod) : g \in Garbage}
                          ELSE {memory_read_half(m, address, BigEndian)}
      [] size = "word" -> IF word_refused(address) THEN Garbage
                          ELSE {memory_read_word(m, address, BigEndian)}

\* mutant: the bytes that are inside the memory are written
MutantStored(contents, size, address, v) ==
    [a \in Address |-> IF a \in address .. (address + (CASE size = "byte" -> 0
                                                       [] size = "half" -> 1
                                                       [] size = "word" -> 3))
                      THEN ByteOf(v, a - address) ELSE contents[a]]

Stored(contents, size, address, v) ==
    CASE size = "byte" -> IF byte_refused(address) THEN contents
                          ELSE memory_write_byte(contents, address, v % ByteMod)
      [] size = "half" -> IF half_refused(address) THEN contents
                          ELSE memory_write_half(contents, address, v % (ByteMod * ByteMod), BigEndian)
      [] size = "word" -> IF word_refused(address) THEN contents
                          ELSE memory_write_word(contents, address, v, BigEndian)

(* The base is written back before the register to store is read.          *)
StoredRegister(q, t) ==
    arm_read_register(IF WritesBack(t) THEN arm_write_register(q, t.rn, Indexed(q, t)) ELSE q, t.rd)

RefuseTransfer(t) == /\ Refused(t)
                     /\ LoadStore(FALSE, t.rn, 0, t.load, t.rd, 0, FALSE)
                     /\ UNCHANGED m

(* S and H are looked at after the base is written back.                   *)
OtherTransfer(t) ==
    /\ t.size = "other"
    /\ LoadStore(WritesBack(t), t.rn, Indexed(Fetched, t), t.load, t.rd, 0, FALSE)
    /\ UNCHANGED m

Load(t) ==
    /\ t.load /\ ~Refused(t) /\ t.size # "other"
    /\ \E address \in Reached(Fetched, t) : \E v \in Loaded(t.size, address) :
          LoadStore(WritesBack(t), t.rn, Indexed(Fetched, t), TRUE, t.rd, v, TRUE)
    /\ UNCHANGED m

Store(t) ==
    /\ ~t.load /\ ~Refused(t) /\ t.size # "other"
    /\ LoadStore(WritesBack(t), t.rn, Indexed(Fetched, t), FALSE, t.rd, 0, TRUE)
    /\ \E address \in Reached(Fetched, t) :
          m' = Stored(m, t.size, address, StoredRegister(Fetched, t))

-----------------------------------------------------------------------------
(* Block transfers.  U and P are bits 23 and 24: increment or decrement,   *)
(* before or after.                                                        *)
Blocks == [class : {"block"}, P : BOOLEAN, U : BOOLEAN, S : BOOLEAN, W : BOOLEAN, load : BOOLEAN,
           list : Lists, rn : BaseRegisters]

BlockSize(list) == 4 * Cardinality(list)          \* number_set_bits_in

start_address(base, b) ==
    CASE b.U /\ ~b.P  -> base
      [] b.U /\ b.P   -> Plus(base, 4)
      [] ~b.U /\ ~b.P -> Minus(base, BlockSize(b.list) - 4)
      [] ~b.U /\ b.P  -> Minus(base, BlockSize(b.list))

\* mutant: the end of a block that starts after the base is counted from it
MutantEndAddress(base, b) == IF b.U THEN Plus(base, BlockSize(b.list) - 4) ELSE base

end_address(base, b) ==
    CASE b.U /\ ~b.P  -> Plus(base, BlockSize(b.list) - 4)
      [] b.U /\ b.P   -> Plus(base, BlockSize(b.list))
      [] ~b.U /\ ~b.P -> base
      [] ~b.U /\ b.P  -> Minus(base, 4)

(* The loops go through the registers from the lowest, four bytes apart.   *)
Rank(i, list) == Cardinality({j \in list : j < i})

\* mutant: a list that starts below r8 is taken from the highest register
MutantAddressOf(start, i, list) == Plus(start, 4 * Cardinality({j \in list : j > i}))

AddressOf(start, i, list) == Plus(start, 4 * Rank(i, list))

AfterLast(start, list) == Plus(start, BlockSize(list))

BlockRefused(q, b) == b.list = {} \/ (b.S /\ registers_get_mode(q) \in {USR, SYS})

(* The words of an LDM.  With S each has a local of its own; without S one *)
(* local serves the whole loop, and keeps its last value when a read is    *)
(* refused.                                                                *)
WordsLoaded(start, b) ==
    LET Inside(i) == ~word_refused(AddressOf(start, i, b.list))
        Read(i)   == memory_read_word(m, AddressOf(start, i, b.list), BigEndian)
        before(i) == {j \in b.list : j <= i /\ Inside(j)}
    IN  IF b.S
        THEN {w \in [b.list -> Garbage \cup {Read(i) : i \in {j \in b.list : Inside(j)}}] :
                 \A i \in b.list : IF Inside(i) THEN w[i] = Read(i) ELSE w[i] \in Garbage}
        ELSE {[i \in b.list |-> IF before(i) = {} THEN g
                                ELSE Read(CHOOSE j \in before(i) : \A k \in before(i) : k <= j)] :
                 g \in Garbage}

\* mutant: it is the user bank's with and without S
MutantRegisterToStore(q, b, i) == arm_read_register_internal(q, i, USR)

(* The register an STM stores: the user bank's with S.                     *)
RegisterToStore(q, b, i) == IF b.S THEN arm_read_register_internal(q, i, USR)
                                   ELSE arm_read_register(q, i)

StoredBlock(q, start, b) ==
    LET after[n \in 0 .. 16] ==
            IF n = 0 THEN m
            ELSE IF n - 1 \in b.list
            THEN Stored(after[n - 1], "word", AddressOf(start, n - 1, b.list),
                        RegisterToStore(q, b, n - 1))
            ELSE after[n - 1]
    IN  after[16]

StartOf(q, b) == start_address(arm_read_register(q, b.rn), b)

(* assert(end_address == (address - 4)), at the end of each loop.          *)
Assertion(q, b) ==
    end_address(arm_read_register(q, b.rn), b) = Minus(AfterLast(StartOf(q, b), b.list), 4)

RefuseBlock(b) == /\ BlockRefused(Fetched, b)
                  /\ BlockTransfer(b.load, b.S, b.W, b.list, b.rn, 0, [i \in b.list |-> 0])
                  /\ UNCHANGED <<m, asserted>>

LoadBlock(b) ==
    LET start == StartOf(Fetched, b)
    IN  /\ b.load /\ ~BlockRefused(Fetched, b)
        /\ \E loaded \in WordsLoaded(start, b) :
              BlockTransfer(TRUE, b.S, b.W, b.list, b.rn, AfterLast(start, b.list), loaded)
        /\ asserted' = (asserted /\ Assertion(Fetched, b))
        /\ UNCHANGED m

StoreBlock(b) ==
    LET start == StartOf(Fetched, b)
    IN  /\ ~b.load /\ ~BlockRefused(Fetched, b)
        /\ BlockTransfer(FALSE, b.S, b.W, b.list, b.rn, AfterLast(start, b.list),
                             [i \in b.list |-> 0])
        /\ asserted' = (asserted /\ Assertion(Fetched, b))
        /\ m' = StoredBlock(Fetched, start, b)

-----------------------------------------------------------------------------
NoInstruction == [class |-> "none"]

ProgramTypeOK == /\ MachineTypeOK
                 /\ ins \in Transfers \cup Blocks \cup {NoInstruction}
                 /\ asserted \in BOOLEAN

ProgramInit == /\ p \in Starts
               /\ cycle_count = 0
               /\ result = SUCCESSFULLY_DECODED
               /\ m \in InitialContents
               /\ ins = NoInstruction
               /\ asserted = TRUE

Single(t) == /\ ins' = t
             /\ UNCHANGED asserted
             /\ RefuseTransfer(t) \/ OtherTransfer(t) \/ Load(t) \/ Store(t)

Block(b) == /\ ins' = b
            /\ RefuseBlock(b) \/ LoadBlock(b) \/ StoreBlock(b)

ProgramNext == cycle_count < MaxCycles /\ (\/ \E t \in Transfers : Single(t)
                                           \/ \E b \in Blocks : Block(b))

ProgramSpec == ProgramInit /\ [][ProgramNext]_program

-----------------------------------------------------------------------------
(* A block transfer runs into none of the assertions that follow its loops:*)
(* the end address computed from the addressing mode is the address of the *)
(* last word the loop reached, also where the addresses wrap around the    *)
(* top of the 32-bit space (src/arm_load_store.c lines 313, 327, 342, 362  *)
(* and 372).                                                               *)
AssertionsHold == asserted

Transferring(b) == b.class = "block" /\ ~BlockRefused(Fetched, b)

(* Where register i is, counted from the base: r0, r0 + 4, .. for IA, and  *)
(* r0 - 4n, .., r0 - 4 for DB (Examples/ldst_mult1.s line 16, ldst_mult2.s *)
(* line 16), the lowest register always at the lowest address.             *)
PlaceOf(base, b, i) ==
    LET n == Cardinality(b.list)
        r == Rank(i, b.list)
    IN  CASE b.U /\ ~b.P  -> Plus(base, 4 * r)
          [] b.U /\ b.P   -> Plus(base, 4 * (r + 1))
          [] ~b.U /\ ~b.P -> Minus(base, 4 * (n - 1 - r))
          [] ~b.U /\ b.P  -> Minus(base, 4 * (n - r))

(* Every register of a block transfer meets its own word: after an STM the *)
(* word at the place of register i is register i, the user bank's with S,  *)
(* and after an LDM register i is that word, unless it is the base that    *)
(* was written back or the PC; the words outside the memory are lost.      *)
(* This relates the four address computations to the order of the loops    *)
(* (src/arm_load_store.c lines 266-373).  The mode is one of the seven:    *)
(* with another mode field r8..r14 have no slot to be loaded into.         *)
BlockIsOrdered ==
    [][\A b \in {ins'} : registers_get_mode(p) \in Modes /\ Transferring(b) =>
          \A i \in b.list :
             LET base  == arm_read_register(Fetched, b.rn)
                 place == PlaceOf(base, b, i)
                 bank  == IF b.S /\ (~b.load \/ PC \notin b.list) THEN USR ELSE registers_get_mode(p)
             IN  ~word_refused(place) =>
                 IF b.load
                 THEN i \in {PC} \cup (IF b.W THEN {b.rn} ELSE {}) \/
                      registers_read(p', i, bank) = memory_read_word(m, place, BigEndian)
                 ELSE memory_read_word(m', place, BigEndian)
                         = arm_read_register_internal(Fetched, i, bank)]_program

(* The bytes an instruction may write: none when it loads, is refused or   *)
(* reaches outside the memory.                                             *)
SizeInBytes(size) == CASE size = "byte" -> 1 [] size = "half" -> 2 [] size = "word" -> 4

Inside(address, n) == IF address + n <= Size THEN address .. (address + n - 1) ELSE {}

Footprints(q, t) ==
    IF t.class = "block"
    THEN {UNION {Inside(PlaceOf(arm_read_register(q, t.rn), t, i), 4) : i \in t.list}}
    ELSE {Inside(address, SizeInBytes(t.size)) : address \in Reached(q, t)}

(* The registers an instruction may write.                                 *)
MayWrite(t) == {PC, t.rn} \cup (IF ~t.load THEN {}
                                ELSE IF t.class = "block" THEN t.list ELSE {t.rd})

(* An access that reaches past the end of the memory is given up whole: no *)
(* byte is written before it is refused and none outside the addressed     *)
(* words, the instruction is reported as executed, and a load that is      *)
(* refused disturbs no register but the PC, the base and the registers it  *)
(* names, which get a value that is not the memory's (the result of        *)
(* arm_read_word and arm_write_word is looked at nowhere in                *)
(* src/arm_load_store.c, lines 192-231 and 291-373).                       *)
OutsideIsContained ==
    [][\A t \in {ins'} \ {NoInstruction} : result' = SUCCESSFULLY_DECODED =>
          /\ \E footprint \in Footprints(Fetched, t) :
                \A a \in Address : m'[a] # m[a] => ~t.load /\ a \in footprint
          /\ \A s \in Slot : p'.genreg[s] # p.genreg[s] =>
                s % 16 \in MayWrite(t)]_program

(* What was stored is loaded back: an STR, STRB, STRH or STM that leaves   *)
(* its base alone, followed by the load with the same fields, gives every  *)
(* register it names the value it stored, cut to the size of the access.   *)
(* (The base and the offset are not the PC, which moves in between.)       *)
SizeMod(size) == CASE size = "byte" -> ByteMod
                   [] size = "half" -> ByteMod * ByteMod
                   [] size = "word" -> WordMod

LoadsBack(b) == /\ ins.class # "none" /\ b.class = ins.class
                /\ b = [ins EXCEPT !.load = TRUE] /\ ~ins.load
                /\ result = SUCCESSFULLY_DECODED /\ b.rn # PC

RoundTrip ==
    [][\A b \in {ins'} : LoadsBack(b) =>
          IF b.class = "block"
          THEN \A i \in b.list \ {PC} :
                  (~b.W /\ ~b.S /\ ~word_refused(PlaceOf(arm_read_register(p, b.rn), b, i))) =>
                     arm_read_register(p', i) = arm_read_register(p, i)
          ELSE (/\ b.P /\ ~b.W /\ b.rd # PC /\ OffsetRegister # PC
                /\ Inside(Indexed(p, b), SizeInBytes(b.size)) # {}) =>
                  arm_read_register(p', b.rd) = arm_read_register(p, b.rd) % SizeMod(b.size)]_program
=============================================================================
