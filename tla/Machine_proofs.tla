--------------------------- MODULE Machine_proofs ---------------------------
(***************************************************************************)
(* Theorems about the two that work on the memory, the program's loads and *)
(* stores (LoadStore) and the debugger (GdbProtocol), for every size of    *)
(* the words and of the memory, every register list, every instruction and *)
(* every packet; and about the operands that instructions shift (Shifter), *)
(* for every width and amount.                                             *)
(*                                                                         *)
(* Their loops are recursive functions over a bounded range of numbers.    *)
(* What such a loop computes is proved from three lemmas on natural        *)
(* numbers: that a set of them has a least member, that what holds at zero *)
(* and is kept by every step holds up to the bound, and that the function  *)
(* a loop defines exists.  So is what a number of one-bit shifts leaves.   *)
(***************************************************************************)
EXTENDS LoadStore, GdbProtocol, Shifter, ArmCpu_proofs, FiniteSetTheorems, SequenceTheorems,
        WellFoundedInduction

-----------------------------------------------------------------------------
(* Induction and recursion up to a bound.                                  *)
LEMMA LeastNumber ==
    ASSUME NEW T, T \subseteq Nat, T # {}
    PROVE  \E x \in T : \A y \in T : ~(y < x)
<1> DEFINE R == OpToRel(<, Nat)
<1>1. IsWellFoundedOn(R, Nat)
  BY NatLessThanWellFounded
<1> HIDE DEF R
<1>2. PICK x \in T : \A y \in T : ~(<<y, x>> \in R)
  BY <1>1, WFMin
<1>3. \A y \in T : <<y, x>> \in R <=> y < x
  BY DEF R, OpToRel
<1> QED BY <1>2, <1>3

LEMMA GreatestNumber ==
    ASSUME NEW N \in Nat, NEW T, T \subseteq 0 .. N, T # {}
    PROVE  \E x \in T : \A y \in T : y <= x
<1> DEFINE U == {N - y : y \in T}
<1>1. U \subseteq Nat /\ U # {}
  <2>1. \A y \in T : N - y \in Nat
    OBVIOUS
  <2> QED BY <2>1
<1>2. PICK u \in U : \A y \in U : ~(y < u)
  BY <1>1, LeastNumber
<1>3. PICK x \in T : u = N - x
  OBVIOUS
<1>4. ASSUME NEW y \in T PROVE y <= x
  <2>1. ~(N - y < N - x)
    BY <1>2, <1>3
  <2> QED BY <2>1
<1> QED BY <1>4

LEMMA BoundedInduction ==
    ASSUME NEW N \in Nat, NEW S, 0 \in S, \A n \in 1 .. N : n - 1 \in S => n \in S
    PROVE  \A n \in 0 .. N : n \in S
<1> SUFFICES ASSUME NEW k \in 0 .. N, k \notin S PROVE FALSE
  OBVIOUS
<1> DEFINE Missing == {n \in 0 .. N : n \notin S}
<1>1. Missing \subseteq Nat /\ Missing # {}
  OBVIOUS
<1>2. PICK n \in Missing : \A i \in Missing : ~(i < n)
  BY <1>1, LeastNumber
<1>3. n \in 1 .. N /\ n - 1 \in 0 .. N
  OBVIOUS
<1>4. n - 1 \in S
  BY <1>2, <1>3
<1> QED BY <1>2, <1>3, <1>4

(* A loop of N rounds that starts with d and goes from c to F[n][c] in     *)
(* round n, and what it has after each.                                    *)
Rounds(F, N, D)   == \A n \in 1 .. N : \A c \in D : F[n][c] \in D
Loop(f, F, N, d)  == f[0] = d /\ \A n \in 1 .. N : f[n] = F[n][f[n - 1]]

LEMMA BoundedRecursion ==
    ASSUME NEW N \in Nat, NEW D, NEW d \in D, NEW F, Rounds(F, N, D)
    PROVE  \E f \in [0 .. N -> D] : Loop(f, F, N, d)
<1> USE DEF Rounds, Loop
<1> DEFINE Good(k, f) == f \in [0 .. k -> D] /\ f[0] = d /\ \A n \in 1 .. k : f[n] = F[n][f[n - 1]]
           S == {k \in 0 .. N : \E f : Good(k, f)}
<1>1. 0 \in S
  <2>1. Good(0, [n \in 0 .. 0 |-> d])
    OBVIOUS
  <2>2. 0 \in 0 .. N
    OBVIOUS
  <2> HIDE DEF Good
  <2> QED BY <2>1, <2>2
<1>2. ASSUME NEW k \in 1 .. N, k - 1 \in S PROVE k \in S
  <2>1. \E f : Good(k - 1, f)
    <3> HIDE DEF Good
    <3> QED BY <1>2
  <2>2. PICK f : Good(k - 1, f)
    BY <2>1, Zenon
  <2> DEFINE g == [n \in 0 .. k |-> IF n = k THEN F[k][f[k - 1]] ELSE f[n]]
  <2>3. f[k - 1] \in D
    BY <2>2
  <2>4. F[k][f[k - 1]] \in D
    BY <2>3
  <2>5. \A n \in 0 .. (k - 1) : g[n] = f[n] /\ f[n] \in D
    BY <2>2
  <2>6. g \in [0 .. k -> D]
    <3>1. \A n \in 0 .. k : n = k \/ n \in 0 .. (k - 1)
      OBVIOUS
    <3>2. \A n \in 0 .. (k - 1) : f[n] \in D
      BY <2>5
    <3>3. \A n \in 0 .. k : (IF n = k THEN F[k][f[k - 1]] ELSE f[n]) \in D
      BY <2>4, <3>1, <3>2
    <3> QED BY <3>3
  <2>7. g[0] = d
    BY <2>2, <2>5
  <2>8. ASSUME NEW n \in 1 .. k PROVE g[n] = F[n][g[n - 1]]
    <3>1. CASE n = k
      <4>1. g[k] = F[k][f[k - 1]] /\ g[k - 1] = f[k - 1]
        BY <2>5
      <4> HIDE DEF g
      <4> QED BY <3>1, <4>1
    <3>2. CASE n # k
      <4>1. n \in 1 .. (k - 1) /\ n - 1 \in 0 .. (k - 1) /\ n \in 0 .. (k - 1)
        BY <3>2
      <4> HIDE DEF g
      <4> QED BY <2>2, <2>5, <4>1
    <3> QED BY <3>1, <3>2
  <2>9. Good(k, g)
    <3> HIDE DEF g
    <3> QED BY <2>6, <2>7, <2>8
  <2>10. k \in 0 .. N
    OBVIOUS
  <2> HIDE DEF Good
  <2> QED BY <2>9, <2>10
<1>3. N \in S
  <2> HIDE DEF S
  <2>1. \A n \in 0 .. N : n \in S
    BY <1>1, <1>2, BoundedInduction
  <2>2. N \in 0 .. N
    OBVIOUS
  <2> QED BY <2>1, <2>2
<1> QED
  <2>1. \E f : Good(N, f)
    <3> HIDE DEF Good
    <3> QED BY <1>3
  <2> QED BY <2>1

-----------------------------------------------------------------------------
(* Words that wrap.                                                        *)
LEMMA WordModFacts == WordMod \in Nat /\ WordMod > 0 /\ Word = 0 .. (WordMod - 1)
BY WordAssumption

LEMMA Residue ==
    ASSUME NEW v \in Int
    PROVE  \E q \in Int : v % WordMod \in 0 .. (WordMod - 1) /\ v = q * WordMod + (v % WordMod)
<1>1. v \div WordMod \in Int /\ v % WordMod \in 0 .. (WordMod - 1)
  BY WordModFacts
<1>2. v = WordMod * (v \div WordMod) + (v % WordMod)
  BY WordModFacts
<1>3. WordMod * (v \div WordMod) = (v \div WordMod) * WordMod
  BY <1>1, WordModFacts
<1> QED BY <1>1, <1>2, <1>3

LEMMA ResidueIs ==
    ASSUME NEW q \in Int, NEW r \in 0 .. (WordMod - 1)
    PROVE  (q * WordMod + r) % WordMod = r
BY WordModFacts

LEMMA WrapOnce ==
    ASSUME NEW a \in Int, NEW b \in Int
    PROVE  ((a % WordMod) + b) % WordMod = (a + b) % WordMod
<1>1. PICK q \in Int : a % WordMod \in 0 .. (WordMod - 1) /\ a = q * WordMod + (a % WordMod)
  BY Residue
<1>2. PICK k \in Int : /\ (a + b) % WordMod \in 0 .. (WordMod - 1)
                       /\ a + b = k * WordMod + ((a + b) % WordMod)
  BY Residue
<1> DEFINE x == a % WordMod
           y == (a + b) % WordMod
<1>3. x \in Int /\ y \in 0 .. (WordMod - 1) /\ a = q * WordMod + x /\ a + b = k * WordMod + y
  BY <1>1, <1>2
<1> HIDE DEF x, y
<1>4. (k - q) * WordMod = k * WordMod - q * WordMod /\ k - q \in Int
  BY WordModFacts
<1>5. x + b = (k - q) * WordMod + y
  BY <1>3, <1>4, WordModFacts
<1>6. ((k - q) * WordMod + y) % WordMod = y
  BY <1>3, <1>4, ResidueIs
<1> QED BY <1>5, <1>6 DEF x, y

(* Two addresses less than the address space apart wrap to two words.      *)
LEMMA WrapsApart ==
    ASSUME NEW a \in Int, NEW n \in 0 .. (WordMod - 1),
           a % WordMod = (a + n) % WordMod
    PROVE  n = 0
<1>1. PICK q \in Int : a % WordMod \in 0 .. (WordMod - 1) /\ a = q * WordMod + (a % WordMod)
  BY Residue
<1>2. PICK k \in Int : a + n = k * WordMod + ((a + n) % WordMod)
  BY Residue
<1> DEFINE x == a % WordMod
<1>3. x \in Int /\ a = q * WordMod + x /\ a + n = k * WordMod + x
  BY <1>1, <1>2
<1> HIDE DEF x
<1>4. n = (k - q) * WordMod
  BY <1>3, WordModFacts
<1>5. k - q \in Int /\ ((k - q) * WordMod + 0) % WordMod = 0 /\ n % WordMod = n
  BY ResidueIs, WordModFacts
<1> QED BY <1>4, <1>5, WordModFacts

-----------------------------------------------------------------------------
(* What an instruction reaches, loads and stores has the right type.       *)
LEMMA WordIsFullWord == Word = FullWord /\ Byte \subseteq Word /\ HalfWord \subseteq Word
<1>1. WordMod = ByteMod * ByteMod * ByteMod * ByteMod
  BY LoadStoreAssumption DEF MachineAssumption
<1>2. Word = FullWord
  BY <1>1, WordAssumption DEF FullWord
<1> QED BY <1>2, HalfWordsAreWords

LEMMA TransferFields ==
    ASSUME NEW t \in Transfers
    PROVE  /\ t.P \in BOOLEAN /\ t.U \in BOOLEAN /\ t.W \in BOOLEAN /\ t.load \in BOOLEAN
           /\ t.rn \in 0 .. 15 /\ t.rd \in 0 .. 15
           /\ t.amount \in Immediate /\ t.kind \in Kinds
           /\ t.size \in {"byte", "half", "word", "other"}
           /\ t.class \in {"immediate", "register", "scaled", "half immediate", "half register"}
BY LoadStoreAssumption DEF Transfers, Kinds

LEMMA BlockFields ==
    ASSUME NEW b \in Blocks
    PROVE  /\ b.P \in BOOLEAN /\ b.U \in BOOLEAN /\ b.S \in BOOLEAN /\ b.W \in BOOLEAN
           /\ b.load \in BOOLEAN /\ b.rn \in 0 .. 15 /\ b.list \in SUBSET (0 .. 15)
           /\ b.class = "block"
BY LoadStoreAssumption DEF Blocks

LEMMA PlusIsWord ==
    ASSUME NEW a \in Int, NEW b \in Int
    PROVE  Plus(a, b) \in Word /\ Minus(a, b) \in Word
BY ModIsWord DEF Plus, Minus

LEMMA OffsetRegisterNumber == OffsetRegister \in 0 .. 15
BY LoadStoreAssumption

(* A shifted register is a number, and an offset a number.                 *)
LEMMA ShiftIsNumber ==
    ASSUME NEW v \in Nat, NEW n \in Immediate, NEW kind \in Kinds, NEW c \in {0, 1}
    PROVE  shift_operation(kind, v, n, c) \in Int
<1>1. /\ Width \in Nat /\ Width > 0
      /\ \A k \in 0 .. Width : 2 ^ k \in Nat /\ 2 ^ k > 0
  BY LoadStoreAssumption DEF ShiftsAssumption
<1>2. /\ n \in 0 .. Width /\ n \in Nat /\ Width - n \in 0 .. Width
      /\ 1 \in 0 .. Width /\ Width - 1 \in 0 .. Width /\ Width \in 0 .. Width
  BY <1>1 DEF Immediate
<1>3. Modulus \in Nat /\ Modulus > 0
  BY <1>1, <1>2 DEF Modulus
<1>4. ASSUME NEW u \in Nat, NEW k \in 0 .. Width PROVE lsl(u, k) \in Int /\ lsr(u, k) \in Int
  <2>1. 2 ^ k \in Nat /\ 2 ^ k > 0
    BY <1>1
  <2> DEFINE w == 2 ^ k
  <2>2. u * w \in Nat /\ u \div w \in Int
    <3> HIDE DEF w
    <3>1. w \in Nat /\ w > 0
      BY <2>1 DEF w
    <3> QED BY <3>1
  <2> QED BY <1>3, <2>2 DEF lsl, lsr
<1>5. get_bit(v, Width - 1) \in Int
  <2> DEFINE w == 2 ^ (Width - 1)
  <2>1. w \in Nat /\ w > 0
    BY <1>1, <1>2
  <2>2. (v \div w) % 2 \in Int
    <3> HIDE DEF w
    <3> QED BY <2>1
  <2> QED BY <2>2 DEF get_bit
<1>6. c * 2 ^ (Width - 1) \in Int
  <2> DEFINE w == 2 ^ (Width - 1)
  <2>1. w \in Nat
    BY <1>1, <1>2
  <2> HIDE DEF w
  <2>2. c * w \in Int
    BY <2>1
  <2> QED BY <2>2 DEF w
<1>7. asr(v, n) \in Int
  <2>1. Modulus - 2 ^ (Width - n) \in Int
    BY <1>1, <1>2, <1>3
  <2> QED BY <1>2, <1>4, <2>1 DEF asr
<1>8. ror(v, n) \in Int
  BY <1>2, <1>4 DEF ror
<1>9. get_bit(v, Width - 1) * (Modulus - 1) \in Int
  <2> DEFINE g == get_bit(v, Width - 1)
             h == Modulus - 1
  <2>1. g \in Int /\ h \in Int
    BY <1>3, <1>5
  <2> HIDE DEF g, h
  <2>2. g * h \in Int
    BY <2>1
  <2> QED BY <2>2 DEF g, h
<1>10. lsr(v, 1) \in Int /\ lsr(v, n) \in Int /\ lsl(v, n) \in Int
  BY <1>2, <1>4
<1>11. CASE kind = "LSL"
  BY <1>10, <1>11 DEF shift_operation
<1>12. CASE kind = "LSR"
  BY <1>10, <1>12 DEF shift_operation
<1>13. CASE kind = "ASR"
  BY <1>7, <1>9, <1>13 DEF shift_operation
<1>14. CASE kind = "ROR"
  <2>1. c * 2 ^ (Width - 1) + lsr(v, 1) \in Int
    BY <1>6, <1>10
  <2> QED BY <1>8, <1>14, <2>1 DEF shift_operation
<1> QED BY <1>11, <1>12, <1>13, <1>14 DEF Kinds

LEMMA OffsetIsNumber ==
    ASSUME NEW q \in RegisterFileType, NEW t \in Transfers
    PROVE  Offset(q, t) \in Int
<1>1. arm_read_register(q, OffsetRegister) \in Word
  BY ArmReadType, OffsetRegisterNumber
<1>2. arm_read_register(q, OffsetRegister) \in Nat
  BY <1>1, WordAssumption
<1>3. CarryFlag(q) \in {0, 1}
  BY DEF CarryFlag
<1>4. t.amount \in Immediate /\ t.kind \in Kinds
  BY TransferFields
<1>5. t.amount \in Int
  BY <1>4 DEF Immediate
<1>6. shift_operation(t.kind, arm_read_register(q, OffsetRegister), t.amount, CarryFlag(q)) \in Int
  BY <1>2, <1>3, <1>4, ShiftIsNumber
<1>7. CASE t.class \in {"immediate", "half immediate"}
  BY <1>5, <1>7 DEF Offset
<1>8. CASE t.class \in {"register", "half register"}
  <2>1. Offset(q, t) = arm_read_register(q, OffsetRegister)
    BY <1>8 DEF Offset
  <2> QED BY <1>2, <2>1
<1>9. CASE t.class = "scaled"
  BY <1>6, <1>9 DEF Offset
<1> QED BY <1>7, <1>8, <1>9, TransferFields

LEMMA ReachedAreWords ==
    ASSUME NEW q \in RegisterFileType, NEW t \in Transfers
    PROVE  /\ Indexed(q, t) \in Word /\ arm_read_register(q, t.rn) \in Word
           /\ \A address \in Reached(q, t) : address \in Word
<1>1. arm_read_register(q, t.rn) \in Word
  BY ArmReadType, TransferFields
<1>2. Indexed(q, t) \in Word
  BY <1>1, WordIsInt, OffsetIsNumber, PlusIsWord DEF Indexed, Moved
<1> QED BY <1>1, <1>2, LoadStoreAssumption DEF Reached

LEMMA LoadedAreWords ==
    ASSUME m \in Contents, NEW size \in {"byte", "half", "word"}, NEW address \in Word,
           NEW v \in Loaded(size, address)
    PROVE  v \in Word
<1>1. address \in Nat /\ BigEndian \in BOOLEAN /\ \A g \in Garbage : g \in Word /\ g \in Nat
  BY WordAssumption, LoadStoreAssumption
<1>2. CASE size = "byte"
  <2>1. \A g \in Garbage : g % ByteMod \in Byte
    BY <1>1, MemoryAssumption DEF Byte
  <2>2. ~byte_refused(address) => memory_read_byte(m, address) \in Word
    BY <1>1, WordIsFullWord, AccessesAreTyped
  <2> QED BY <1>2, <2>1, <2>2, WordIsFullWord DEF Loaded
<1>3. CASE size = "half"
  <2> DEFINE H == ByteMod * ByteMod
  <2>1. H \in Nat /\ H > 0
    BY Powers
  <2>2. \A g \in Garbage : g % H \in 0 .. (H - 1)
    <3> HIDE DEF H
    <3> QED BY <1>1, <2>1
  <2>3. \A g \in Garbage : g % H \in HalfWord
    BY <2>2 DEF HalfWord
  <2>4. ~half_refused(address) => memory_read_half(m, address, BigEndian) \in Word
    BY <1>1, WordIsFullWord, AccessesAreTyped
  <2> QED BY <1>3, <2>3, <2>4, WordIsFullWord DEF Loaded
<1>4. CASE size = "word"
  <2>1. ~word_refused(address) => memory_read_word(m, address, BigEndian) \in Word
    BY <1>1, WordIsFullWord, AccessesAreTyped
  <2> QED BY <1>1, <1>4, <2>1 DEF Loaded
<1> QED BY <1>2, <1>3, <1>4

LEMMA StoredIsTyped ==
    ASSUME NEW contents \in Contents, NEW size \in {"byte", "half", "word"},
           NEW address \in Word, NEW v \in Word
    PROVE  Stored(contents, size, address, v) \in Contents
<1>1. address \in Nat /\ BigEndian \in BOOLEAN /\ v \in Nat /\ v \in FullWord
  BY WordAssumption, LoadStoreAssumption, WordIsFullWord
<1>2. CASE size = "byte"
  <2>1. v % ByteMod \in Byte
    BY <1>1, MemoryAssumption DEF Byte
  <2> QED BY <1>1, <1>2, <2>1, AccessesAreTyped DEF Stored
<1>3. CASE size = "half"
  <2> DEFINE H == ByteMod * ByteMod
  <2>1. H \in Nat /\ H > 0
    BY Powers
  <2>2. v % H \in 0 .. (H - 1)
    <3> HIDE DEF H
    <3> QED BY <1>1, <2>1
  <2>3. v % H \in HalfWord
    BY <2>2 DEF HalfWord
  <2> QED BY <1>1, <1>3, <2>3, AccessesAreTyped DEF Stored
<1>4. CASE size = "word"
  BY <1>1, <1>4, AccessesAreTyped DEF Stored
<1> QED BY <1>2, <1>3, <1>4

(* Block transfers: how many registers, and where they are.                *)
LEMMA ListIsFinite ==
    ASSUME NEW list \in SUBSET (0 .. 15)
    PROVE  /\ IsFiniteSet(list) /\ Cardinality(list) \in Nat
           /\ \A i \in list : Rank(i, list) \in Nat
           /\ BlockSize(list) = 4 * Cardinality(list) /\ BlockSize(list) \in Int
<1>1. IsFiniteSet(0 .. 15)
  <2>1. 0 \in Int /\ 15 \in Int
    OBVIOUS
  <2> QED BY <2>1, FS_Interval, Zenon
<1>2. \A T \in SUBSET (0 .. 15) : IsFiniteSet(T) /\ Cardinality(T) \in Nat
  BY <1>1, FS_Subset, FS_CardinalityType
<1>3. Cardinality(list) \in Nat /\ IsFiniteSet(list)
  BY <1>2
<1>4. ASSUME NEW i \in list PROVE Rank(i, list) \in Nat
  <2>1. {j \in list : j < i} \in SUBSET (0 .. 15)
    OBVIOUS
  <2> QED BY <1>2, <2>1 DEF Rank
<1>5. BlockSize(list) = 4 * Cardinality(list)
  BY DEF BlockSize
<1> QED BY <1>3, <1>4, <1>5

LEMMA BlockAddressesAreWords ==
    ASSUME NEW q \in RegisterFileType, NEW b \in Blocks
    PROVE  /\ arm_read_register(q, b.rn) \in Word
           /\ StartOf(q, b) \in Word
           /\ AfterLast(StartOf(q, b), b.list) \in Word
           /\ \A i \in b.list : AddressOf(StartOf(q, b), i, b.list) \in Word
<1>1. arm_read_register(q, b.rn) \in Word /\ arm_read_register(q, b.rn) \in Int
  BY ArmReadType, BlockFields, WordIsInt
<1>2. Cardinality(b.list) \in Nat /\ (\A i \in b.list : Rank(i, b.list) \in Nat)
      /\ BlockSize(b.list) \in Int /\ b.U \in BOOLEAN /\ b.P \in BOOLEAN
  BY BlockFields, ListIsFinite
<1>3. StartOf(q, b) \in Word
  BY <1>1, <1>2, PlusIsWord DEF StartOf, start_address
<1>4. StartOf(q, b) \in Int
  BY <1>3, WordIsInt
<1>5. AfterLast(StartOf(q, b), b.list) \in Word
  BY <1>2, <1>4, PlusIsWord DEF AfterLast
<1>6. ASSUME NEW i \in b.list PROVE AddressOf(StartOf(q, b), i, b.list) \in Word
  <2>1. 4 * Rank(i, b.list) \in Int
    BY <1>2
  <2> QED BY <1>4, <2>1, PlusIsWord DEF AddressOf
<1> QED BY <1>1, <1>3, <1>5, <1>6

(* The register number of a list names a word in every mode.               *)
LEMMA RegisterToStoreIsWord ==
    ASSUME NEW q \in RegisterFileType, NEW b \in Blocks, NEW i \in b.list
    PROVE  RegisterToStore(q, b, i) \in Word
<1>1. i \in 0 .. 15
  BY BlockFields
<1>2. registers_read(q, i, USR) \in Word
  BY <1>1, ReadType
<1>3. arm_read_register_internal(q, i, USR) \in Word
  <2>1. registers_read(q, 15, USR) \in Word
    BY PcNumber, ReadType
  <2> QED BY <1>2, <2>1, PcAheadIsWord DEF arm_read_register_internal
<1> QED BY <1>1, <1>3, ArmReadType DEF RegisterToStore

(* The words an LDM may load are words, and without S or where the memory  *)
(* lets it read they are the memory's.                                     *)
LEMMA WordsLoadedAre ==
    ASSUME m \in Contents, NEW q \in RegisterFileType, NEW b \in Blocks,
           NEW loaded \in WordsLoaded(StartOf(q, b), b)
    PROVE  /\ loaded \in [b.list -> Word]
           /\ \A i \in b.list : ~word_refused(AddressOf(StartOf(q, b), i, b.list)) =>
                 loaded[i] = memory_read_word(m, AddressOf(StartOf(q, b), i, b.list), BigEndian)
<1> DEFINE start == StartOf(q, b)
           Within(i) == ~word_refused(AddressOf(start, i, b.list))
           Read(i) == memory_read_word(m, AddressOf(start, i, b.list), BigEndian)
           before(i) == {j \in b.list : j <= i /\ Within(j)}
<1>1. b.list \subseteq 0 .. 15
  BY BlockFields
<1>2. ASSUME NEW i \in b.list, Within(i) PROVE Read(i) \in Word
  <2>1. AddressOf(start, i, b.list) \in Nat
    BY BlockAddressesAreWords, WordAssumption
  <2> QED BY <1>2, <2>1, AccessesAreTyped, WordIsFullWord, LoadStoreAssumption
<1>3. Garbage \subseteq Word
  BY LoadStoreAssumption
<1>4. CASE b.S
  <2>1. loaded \in {w \in [b.list -> Garbage \cup {Read(i) : i \in {j \in b.list : Within(j)}}] :
                       \A i \in b.list : IF Within(i) THEN w[i] = Read(i) ELSE w[i] \in Garbage}
    BY <1>4 DEF WordsLoaded
  <2> HIDE DEF Within, Read
  <2>2. \A i \in b.list : IF Within(i) THEN loaded[i] = Read(i) ELSE loaded[i] \in Garbage
    BY <2>1
  <2>3. loaded = [i \in b.list |-> loaded[i]]
    BY <2>1
  <2>4. \A i \in b.list : loaded[i] \in Word
    BY <1>2, <1>3, <2>2
  <2> QED BY <2>2, <2>3, <2>4 DEF Within, Read
<1>5. CASE ~b.S
  <2>1. PICK g \in Garbage :
           loaded = [i \in b.list |-> IF before(i) = {} THEN g
                       ELSE Read(CHOOSE j \in before(i) : \A k \in before(i) : k <= j)]
    BY <1>5 DEF WordsLoaded
  <2> DEFINE last(i) == CHOOSE j \in before(i) : \A k \in before(i) : k <= j
  <2>2. ASSUME NEW i \in b.list, before(i) # {}
        PROVE  last(i) \in before(i) /\ \A k \in before(i) : k <= last(i)
    <3>1. before(i) \subseteq 0 .. 15
      BY <1>1
    <3>2. \E j \in before(i) : \A k \in before(i) : k <= j
      <4> HIDE DEF before
      <4> QED BY <2>2, <3>1, GreatestNumber
    <3> HIDE DEF before
    <3> QED BY <3>2
  <2>3. ASSUME NEW i \in b.list, before(i) # {}
        PROVE  last(i) \in b.list /\ Within(last(i))
    <3>1. last(i) \in before(i)
      BY <2>2, <2>3
    <3> HIDE DEF last
    <3> QED BY <3>1
  <2>4. ASSUME NEW i \in b.list, Within(i)
        PROVE  before(i) # {} /\ last(i) = i
    <3>1. i \in before(i)
      BY <1>1, <2>4
    <3>2. last(i) \in before(i) /\ i <= last(i)
      BY <2>2, <3>1
    <3>3. last(i) <= i /\ last(i) \in Int /\ i \in Int
      <4> HIDE DEF last
      <4> QED BY <1>1, <3>2
    <3> HIDE DEF last
    <3> QED BY <3>1, <3>2, <3>3
  <2>5. loaded = [i \in b.list |-> IF before(i) = {} THEN g ELSE Read(last(i))]
    BY <2>1
  <2> HIDE DEF last, before
  <2>6. ASSUME NEW i \in b.list PROVE loaded[i] \in Word /\ (Within(i) => loaded[i] = Read(i))
    <3>1. loaded[i] = IF before(i) = {} THEN g ELSE Read(last(i))
      BY <2>5
    <3> HIDE DEF Read, Within
    <3> QED BY <1>2, <1>3, <2>3, <2>4, <3>1
  <2>7. loaded \in [b.list -> Word]
    <3>1. loaded = [i \in b.list |-> loaded[i]]
      BY <2>5
    <3> QED BY <2>6, <3>1
  <2> QED BY <2>6, <2>7
<1> QED BY <1>4, <1>5

(* The loop of STM: the memory after each of the sixteen registers.        *)
LEMMA StoredBlockIs ==
    ASSUME m \in Contents, NEW q \in RegisterFileType, NEW b \in Blocks
    PROVE  LET start == StartOf(q, b)
           IN  \E f \in [0 .. 16 -> Contents] :
                  /\ f[0] = m /\ f[16] = StoredBlock(q, start, b)
                  /\ \A n \in 1 .. 16 :
                        f[n] = IF n - 1 \in b.list
                               THEN Stored(f[n - 1], "word", AddressOf(start, n - 1, b.list),
                                           RegisterToStore(q, b, n - 1))
                               ELSE f[n - 1]
<1> DEFINE start == StartOf(q, b)
           Next1(n, c) == IF n - 1 \in b.list
                          THEN Stored(c, "word", AddressOf(start, n - 1, b.list),
                                      RegisterToStore(q, b, n - 1))
                          ELSE c
           Eq(f) == f = [n \in 0 .. 16 |-> IF n = 0 THEN m ELSE Next1(n, f[n - 1])]
           after == CHOOSE f : Eq(f)
           F == [n \in 1 .. 16 |-> [c \in Contents |-> Next1(n, c)]]
<1>1. StoredBlock(q, start, b) = after[16]
  BY DEF StoredBlock
<1>2. \A n \in 1 .. 16 : \A c \in Contents : Next1(n, c) \in Contents
  BY BlockAddressesAreWords, RegisterToStoreIsWord, StoredIsTyped
<1> HIDE DEF Next1
<1>3. \A n \in 1 .. 16 : \A c \in Contents : F[n][c] = Next1(n, c) /\ F[n][c] \in Contents
  BY <1>2
<1>4. PICK g \in [0 .. 16 -> Contents] : Loop(g, F, 16, m)
  <2>1. 16 \in Nat /\ m \in Contents
    OBVIOUS
  <2> HIDE DEF F, Eq, after
  <2>2. Rounds(F, 16, Contents)
    BY <1>3 DEF Rounds
  <2> QED BY <2>1, <2>2, BoundedRecursion
<1>5. \A n \in 1 .. 16 : g[n - 1] \in Contents /\ g[n] = Next1(n, g[n - 1])
  <2>1. \A n \in 1 .. 16 : g[n - 1] \in Contents
    BY <1>4
  <2> HIDE DEF F
  <2> QED BY <1>3, <1>4, <2>1 DEF Loop
<1>6. Eq(g)
  <2>1. \A n \in 0 .. 16 : n # 0 => n \in 1 .. 16
    OBVIOUS
  <2>2. \A n \in 0 .. 16 : g[n] = IF n = 0 THEN m ELSE Next1(n, g[n - 1])
    BY <1>4, <1>5, <2>1 DEF Loop
  <2>3. g = [n \in 0 .. 16 |-> g[n]]
    BY <1>4
  <2> QED BY <2>2, <2>3
<1>7. Eq(after)
  <2> HIDE DEF Eq
  <2> QED BY <1>6
<1>8. \A n \in 0 .. 16 : after[n] = IF n = 0 THEN m ELSE Next1(n, after[n - 1])
  <2> HIDE DEF after
  <2> QED BY <1>7
<1> HIDE DEF after
<1> DEFINE S == {n \in 0 .. 16 : after[n] = g[n]}
<1>9. 0 \in S
  BY <1>4, <1>8 DEF Loop
<1>10. \A n \in 1 .. 16 : n - 1 \in S => n \in S
  BY <1>5, <1>8
<1>11. \A n \in 0 .. 16 : after[n] = g[n]
  <2> HIDE DEF S
  <2>1. \A n \in 0 .. 16 : n \in S
    BY <1>9, <1>10, BoundedInduction
  <2> QED BY <2>1 DEF S
<1>12. g[16] = StoredBlock(q, start, b)
  BY <1>1, <1>11
<1> QED BY <1>4, <1>5, <1>12 DEF Next1, Loop

-----------------------------------------------------------------------------
(* Every instruction keeps the types.                                      *)
LEMMA OtherIsNumber == "other" \in SwiNumber
BY DEF SwiNumber

LEMMA LoadStoreStep ==
    ASSUME TypeOK, NEW writeback \in BOOLEAN, NEW rn \in 0 .. 15, NEW base \in Word,
           NEW load \in BOOLEAN, NEW rd \in 0 .. 15, NEW v \in Word, NEW implemented \in BOOLEAN,
           LoadStore(writeback, rn, base, load, rd, v, implemented)
    PROVE  TypeOK'
<1>1. arm_load_store(Fetched, writeback, rn, base, load, rd, v, implemented) \in OutcomeType
  BY FetchedType, LoadStoreType
<1> QED BY <1>1, TypedStep, OtherIsNumber DEF LoadStore, Execute

LEMMA BlockTransferStep ==
    ASSUME TypeOK, NEW b \in Blocks, NEW load \in BOOLEAN, NEW base \in Word,
           NEW loaded, loaded \in [b.list -> Word],
           BlockTransfer(load, b.S, b.W, b.list, b.rn, base, loaded)
    PROVE  TypeOK'
<1>1. arm_load_store_multiple(Fetched, load, b.S, b.W, b.list, b.rn, base, loaded) \in OutcomeType
  <2>1. /\ b.S \in BOOLEAN /\ b.W \in BOOLEAN /\ b.list \in SUBSET (0 .. 15) /\ b.rn \in 0 .. 15
    BY BlockFields
  <2>2. Fetched \in RegisterFileType
    BY FetchedType
  <2>3. \A S, W \in BOOLEAN, list \in SUBSET (0 .. 15), rn \in 0 .. 15 :
           loaded \in [list -> Word] =>
              arm_load_store_multiple(Fetched, load, S, W, list, rn, base, loaded) \in OutcomeType
    BY <2>2, BlockTransferType
  <2> QED BY <2>1, <2>3
<1> QED BY <1>1, TypedStep, OtherIsNumber DEF BlockTransfer, Execute

LEMMA SingleIsTyped ==
    ASSUME MachineTypeOK, NEW t \in Transfers, Single(t)
    PROVE  MachineTypeOK'
<1>1. TypeOK /\ m \in Contents /\ Fetched \in RegisterFileType
  BY FetchedType DEF MachineTypeOK
<1>2. /\ t.rn \in 0 .. 15 /\ t.rd \in 0 .. 15 /\ t.load \in BOOLEAN /\ 0 \in Word
      /\ t.P \in BOOLEAN /\ t.W \in BOOLEAN /\ WritesBack(t) \in BOOLEAN
      /\ t.size # "other" => t.size \in {"byte", "half", "word"}
  BY TransferFields, ZeroIsWord DEF WritesBack
<1>3. /\ Indexed(Fetched, t) \in Word
      /\ \A address \in Reached(Fetched, t) : address \in Word
  BY <1>1, ReachedAreWords
<1>4. CASE RefuseTransfer(t)
  <2>1. TypeOK'
    BY <1>1, <1>2, <1>4, LoadStoreStep DEF RefuseTransfer
  <2> QED BY <1>1, <1>4, <2>1 DEF RefuseTransfer, MachineTypeOK
<1>5. CASE OtherTransfer(t)
  <2>1. TypeOK'
    BY <1>1, <1>2, <1>3, <1>5, LoadStoreStep DEF OtherTransfer
  <2> QED BY <1>1, <1>5, <2>1 DEF OtherTransfer, MachineTypeOK
<1>6. CASE Load(t)
  <2>1. PICK address \in Reached(Fetched, t) : \E v \in Loaded(t.size, address) :
           LoadStore(WritesBack(t), t.rn, Indexed(Fetched, t), TRUE, t.rd, v, TRUE)
    BY <1>6 DEF Load
  <2> PICK v \in Loaded(t.size, address) :
           LoadStore(WritesBack(t), t.rn, Indexed(Fetched, t), TRUE, t.rd, v, TRUE)
    BY <2>1
  <2>2. v \in Word
    BY <1>1, <1>2, <1>3, <1>6, LoadedAreWords DEF Load
  <2>3. TypeOK'
    BY <1>1, <1>2, <1>3, <2>1, <2>2, LoadStoreStep
  <2> QED BY <1>1, <1>6, <2>3 DEF Load, MachineTypeOK
<1>7. CASE Store(t)
  <2>1. TypeOK'
    BY <1>1, <1>2, <1>3, <1>7, LoadStoreStep DEF Store
  <2>2. PICK address \in Reached(Fetched, t) :
           m' = Stored(m, t.size, address, StoredRegister(Fetched, t))
    BY <1>7 DEF Store
  <2>3. StoredRegister(Fetched, t) \in Word
    BY <1>1, <1>2, <1>3, ArmWriteType, ArmReadType DEF StoredRegister
  <2>4. m' \in Contents
    BY <1>1, <1>2, <1>3, <1>7, <2>2, <2>3, StoredIsTyped DEF Store
  <2> QED BY <2>1, <2>4 DEF MachineTypeOK
<1> QED BY <1>4, <1>5, <1>6, <1>7 DEF Single

LEMMA BlockIsTyped ==
    ASSUME MachineTypeOK, NEW b \in Blocks, Block(b)
    PROVE  MachineTypeOK'
<1>1. TypeOK /\ m \in Contents /\ Fetched \in RegisterFileType
  BY FetchedType DEF MachineTypeOK
<1>2. /\ b.load \in BOOLEAN /\ b.S \in BOOLEAN /\ b.W \in BOOLEAN
      /\ b.list \in SUBSET (0 .. 15) /\ b.rn \in 0 .. 15
  BY BlockFields
<1> DEFINE none == [i \in b.list |-> 0]
<1>3. none \in [b.list -> Word] /\ 0 \in Word
  BY ZeroIsWord
<1> HIDE DEF none
<1>4. AfterLast(StartOf(Fetched, b), b.list) \in Word
  BY <1>1, BlockAddressesAreWords
<1>5. CASE RefuseBlock(b)
  <2>1. BlockTransfer(b.load, b.S, b.W, b.list, b.rn, 0, none)
    BY <1>5 DEF RefuseBlock, none
  <2>2. TypeOK'
    BY <1>1, <1>2, <1>3, <2>1, BlockTransferStep
  <2> QED BY <1>1, <1>5, <2>2 DEF RefuseBlock, MachineTypeOK
<1>6. CASE LoadBlock(b)
  <2>1. PICK loaded \in WordsLoaded(StartOf(Fetched, b), b) :
           BlockTransfer(TRUE, b.S, b.W, b.list, b.rn,
                         AfterLast(StartOf(Fetched, b), b.list), loaded)
    BY <1>6 DEF LoadBlock
  <2>2. loaded \in [b.list -> Word]
    BY <1>1, WordsLoadedAre
  <2>3. TypeOK'
    BY <1>1, <1>2, <1>4, <2>1, <2>2, BlockTransferStep
  <2> QED BY <1>1, <1>6, <2>3 DEF LoadBlock, MachineTypeOK
<1>7. CASE StoreBlock(b)
  <2>1. BlockTransfer(FALSE, b.S, b.W, b.list, b.rn, AfterLast(StartOf(Fetched, b), b.list), none)
    BY <1>7 DEF StoreBlock, none
  <2>4. TypeOK'
    BY <1>1, <1>2, <1>3, <1>4, <2>1, BlockTransferStep
  <2>2. PICK f \in [0 .. 16 -> Contents] : f[16] = StoredBlock(Fetched, StartOf(Fetched, b), b)
    BY <1>1, StoredBlockIs, Zenon
  <2>3. f[16] \in Contents
    OBVIOUS
  <2> QED BY <1>7, <2>2, <2>3, <2>4 DEF StoreBlock, MachineTypeOK
<1> QED BY <1>5, <1>6, <1>7 DEF Block

LEMMA ProgramInitIsTyped == ASSUME ProgramInit PROVE MachineTypeOK
<1>1. p \in RegisterFileType /\ m \in Contents
  BY LoadStoreAssumption DEF ProgramInit
<1>2. cycle_count \in 0 .. MaxCycles
  BY InputsAssumption DEF ProgramInit
<1>3. result \in Result
  BY DEF ProgramInit, Result, SUCCESSFULLY_DECODED, END_SIMULATION
<1> QED BY <1>1, <1>2, <1>3 DEF MachineTypeOK, TypeOK

LEMMA ProgramKeepsTypes == ASSUME MachineTypeOK, [ProgramNext]_program PROVE MachineTypeOK'
<1>1. CASE UNCHANGED program
  BY <1>1 DEF program, machine, MachineTypeOK, TypeOK
<1> QED BY <1>1, SingleIsTyped, BlockIsTyped DEF ProgramNext

(* Whatever is loaded and stored, in whatever order: registers hold words, *)
(* the memory bytes, also when an access is refused in the middle of a     *)
(* block transfer or an address is uninitialised                           *)
(* (src/arm_load_store.c).                                                 *)
THEOREM ProgramIsTyped == ProgramSpec => []MachineTypeOK
<1>1. MachineTypeOK /\ [ProgramNext]_program => MachineTypeOK'
  BY ProgramKeepsTypes
<1> QED BY <1>1, ProgramInitIsTyped, PTL DEF ProgramSpec

-----------------------------------------------------------------------------
(* The assertions that follow the loops.                                   *)
LEMMA WordWraps == ASSUME NEW v \in Word PROVE v % WordMod = v /\ v \in Int
BY WordModFacts

(* The end address of each mode is the address after the loop, less four.  *)
LEMMA EndIsReached ==
    ASSUME NEW q \in RegisterFileType, NEW b \in Blocks
    PROVE  Assertion(q, b)
<1> DEFINE base == arm_read_register(q, b.rn)
           n == BlockSize(b.list)
           start == start_address(base, b)
<1>1. base \in Word /\ base \in Int /\ base % WordMod = base
  BY ArmReadType, BlockFields, WordWraps
<1>2. n \in Int /\ b.U \in BOOLEAN /\ b.P \in BOOLEAN
  BY BlockFields, ListIsFinite
<1> SUFFICES end_address(base, b) = (((start + n) % WordMod) - 4) % WordMod
  BY DEF Assertion, StartOf, AfterLast, Plus, Minus
<1> HIDE DEF base
<1>3. CASE b.U /\ ~b.P
  <2>1. start = base /\ end_address(base, b) = (base + (n - 4)) % WordMod
    BY <1>3 DEF start_address, end_address, Plus
  <2> HIDE DEF n, start
  <2>2. (((base + n) % WordMod) + (-4)) % WordMod = (base + n + (-4)) % WordMod
    BY <1>1, <1>2, WrapOnce
  <2>3. base + n + (-4) = base + (n - 4) /\ \A x \in Int : x + (-4) = x - 4
    BY <1>1, <1>2
  <2>4. (base + n) % WordMod \in Int
    BY <1>1, <1>2, WordModFacts
  <2> QED BY <2>1, <2>2, <2>3, <2>4
<1>4. CASE b.U /\ b.P
  <2>1. start = (base + 4) % WordMod /\ end_address(base, b) = (base + n) % WordMod
    BY <1>4 DEF start_address, end_address, Plus
  <2> HIDE DEF n, start
  <2>2. (((base + 4) % WordMod) + n) % WordMod = (base + 4 + n) % WordMod
    BY <1>1, <1>2, WrapOnce
  <2>3. (((base + 4 + n) % WordMod) + (-4)) % WordMod = (base + 4 + n + (-4)) % WordMod
    BY <1>1, <1>2, WrapOnce
  <2>4. base + 4 + n + (-4) = base + n /\ \A x \in Int : x + (-4) = x - 4
    BY <1>1, <1>2
  <2>5. (base + 4 + n) % WordMod \in Int
    BY <1>1, <1>2, WordModFacts
  <2> QED BY <2>1, <2>2, <2>3, <2>4, <2>5
<1>5. CASE ~b.U /\ ~b.P
  <2>1. start = (base - (n - 4)) % WordMod /\ end_address(base, b) = base
    BY <1>5 DEF start_address, end_address, Minus
  <2> HIDE DEF n, start
  <2>2. (((base - (n - 4)) % WordMod) + n) % WordMod = (base - (n - 4) + n) % WordMod
    BY <1>1, <1>2, WrapOnce
  <2>3. base - (n - 4) + n = base + 4
    BY <1>1, <1>2
  <2>4. (((base + 4) % WordMod) + (-4)) % WordMod = (base + 4 + (-4)) % WordMod
    BY <1>1, WrapOnce
  <2>5. base + 4 + (-4) = base /\ \A x \in Int : x + (-4) = x - 4
    BY <1>1
  <2>6. (base + 4) % WordMod \in Int
    BY <1>1, WordModFacts
  <2> QED BY <1>1, <2>1, <2>2, <2>3, <2>4, <2>5, <2>6
<1>6. CASE ~b.U /\ b.P
  <2>1. start = (base - n) % WordMod /\ end_address(base, b) = (base - 4) % WordMod
    BY <1>6 DEF start_address, end_address, Minus
  <2> HIDE DEF n, start
  <2>2. (((base - n) % WordMod) + n) % WordMod = (base - n + n) % WordMod
    BY <1>1, <1>2, WrapOnce
  <2>3. base - n + n = base
    BY <1>1, <1>2
  <2> QED BY <1>1, <2>1, <2>2, <2>3
<1> QED BY <1>2, <1>3, <1>4, <1>5, <1>6

(* None of the assertions of LDM and STM fails, in any addressing mode,    *)
(* for any list and any base, at the edges of the address space too        *)
(* (src/arm_load_store.c lines 313, 327, 342, 362 and 372).                *)
THEOREM AssertionsAlwaysHold == ProgramSpec => []AssertionsHold
<1> DEFINE IInv == MachineTypeOK /\ AssertionsHold
<1>1. ProgramInit => IInv
  BY ProgramInitIsTyped DEF ProgramInit, AssertionsHold
<1>2. IInv /\ [ProgramNext]_program => IInv'
  <2> SUFFICES ASSUME IInv, [ProgramNext]_program PROVE AssertionsHold'
    BY ProgramKeepsTypes
  <2>1. Fetched \in RegisterFileType
    BY FetchedType DEF MachineTypeOK
  <2>2. ASSUME NEW t \in Transfers, Single(t) PROVE AssertionsHold'
    BY <2>2 DEF Single, AssertionsHold
  <2>3. ASSUME NEW b \in Blocks, Block(b) PROVE AssertionsHold'
    <3>1. Assertion(Fetched, b)
      BY <2>1, EndIsReached
    <3> QED BY <2>3, <3>1 DEF Block, RefuseBlock, LoadBlock, StoreBlock, AssertionsHold
  <2>4. CASE UNCHANGED program
    BY <2>4 DEF program, AssertionsHold
  <2> QED BY <2>2, <2>3, <2>4 DEF ProgramNext
<1> QED BY <1>1, <1>2, PTL DEF ProgramSpec

-----------------------------------------------------------------------------
(* The packets of the debugger.  Flipping twice changes nothing.           *)
LEMMA FlipsBack ==
    ASSUME NEW v \in Byte
    PROVE  Flipped(v) \in Int /\ Flipped(Flipped(v)) = v
<1>1. Flip \in Nat /\ Flip > 0 /\ v \in Nat
  BY GdbAssumption, MemoryAssumption DEF Byte
<1> DEFINE q == v \div Flip
           r == v % Flip
<1>2. q \in Nat /\ r \in 0 .. (Flip - 1) /\ v = q * Flip + r
  BY <1>1, QuotientAndRemainder
<1>3. Flipped(v) = IF q % 2 = 1 THEN v - Flip ELSE v + Flip
  BY DEF Flipped
<1> HIDE DEF q, r
<1>4. CASE q % 2 = 1
  <2>1. q - 1 \in Nat /\ (q - 1) % 2 = 0
    BY <1>2, <1>4
  <2>2. v - Flip = (q - 1) * Flip + r
    BY <1>1, <1>2
  <2>3. ((q - 1) * Flip + r) \div Flip = q - 1
    BY <1>1, <1>2, <2>1, Division
  <2>4. Flipped(v - Flip) = v - Flip + Flip
    BY <2>1, <2>2, <2>3 DEF Flipped
  <2> QED BY <1>1, <1>3, <1>4, <2>4
<1>5. CASE q % 2 # 1
  <2>1. q + 1 \in Nat /\ (q + 1) % 2 = 1
    BY <1>2, <1>5
  <2>2. v + Flip = (q + 1) * Flip + r
    BY <1>1, <1>2
  <2>3. ((q + 1) * Flip + r) \div Flip = q + 1
    BY <1>1, <1>2, <2>1, Division
  <2> DEFINE w == v + Flip
  <2>4. w \div Flip = q + 1
    BY <2>2, <2>3
  <2>5. w - Flip = v /\ Flipped(v) = w /\ w \in Int
    BY <1>1, <1>3, <1>5
  <2> HIDE DEF w
  <2>6. Flipped(w) = w - Flip
    BY <2>1, <2>4 DEF Flipped
  <2> QED BY <2>5, <2>6
<1> QED BY <1>4, <1>5

(* What stands for a byte in the packet.                                   *)
Code(v) == IF v \in Special THEN <<Escape, Flipped(v)>> ELSE <<v>>

LEMMA CodeIs ==
    ASSUME NEW v \in Byte
    PROVE  /\ Code(v) \in Seq(Int)
           /\ Len(Code(v)) = IF v \in Special THEN 2 ELSE 1
           /\ v \in Special => Code(v)[1] = Escape /\ Code(v)[2] = Flipped(v)
           /\ v \notin Special => Code(v)[1] = v
<1>1. Flipped(v) \in Int /\ Escape \in Int /\ v \in Int
  BY FlipsBack, GdbAssumption DEF Byte
<1> QED BY <1>1 DEF Code

(* The packet after each byte of a block.                                  *)
LEMMA EncodedIs ==
    ASSUME NEW block \in Seq(Byte)
    PROVE  \E f \in [0 .. Len(block) -> Seq(Int)] :
              /\ f[0] = << >> /\ f[Len(block)] = Encoded(block)
              /\ \A n \in 1 .. Len(block) : f[n] = f[n - 1] \o Code(block[n])
<1> DEFINE N == Len(block)
           Eq(f) == f = [n \in 0 .. N |-> IF n = 0 THEN << >> ELSE f[n - 1] \o Code(block[n])]
           upto == CHOOSE f : Eq(f)
           F == [n \in 1 .. N |-> [s \in Seq(Int) |-> s \o Code(block[n])]]
<1>1. Encoded(block) = upto[N]
  BY DEF Encoded, Code
<1>2. N \in Nat /\ \A n \in 1 .. N : block[n] \in Byte
  BY LenProperties, ElementOfSeq
<1>3. \A n \in 1 .. N : \A s \in Seq(Int) : s \o Code(block[n]) \in Seq(Int)
  BY <1>2, CodeIs, ConcatProperties
<1>4. \A n \in 1 .. N : \A s \in Seq(Int) :
         F[n][s] = s \o Code(block[n]) /\ F[n][s] \in Seq(Int)
  BY <1>3
<1>5. PICK g \in [0 .. N -> Seq(Int)] : Loop(g, F, N, << >>)
  <2>1. << >> \in Seq(Int)
    BY EmptySeq
  <2> HIDE DEF F, Eq, upto, N
  <2>2. Rounds(F, N, Seq(Int))
    BY <1>4 DEF Rounds
  <2> QED BY <1>2, <2>1, <2>2, BoundedRecursion
<1>6. g[0] = << >> /\ \A n \in 1 .. N : g[n] = g[n - 1] \o Code(block[n])
  <2> HIDE DEF F, N
  <2>1. \A n \in 1 .. N : g[n - 1] \in Seq(Int)
    BY <1>2, <1>5
  <2> QED BY <1>4, <1>5, <2>1 DEF Loop
<1> HIDE DEF F, N
<1>7. Eq(g)
  <2>1. \A n \in 0 .. N : n # 0 => n \in 1 .. N
    BY <1>2
  <2>2. \A n \in 0 .. N : g[n] = IF n = 0 THEN << >> ELSE g[n - 1] \o Code(block[n])
    BY <1>6, <2>1
  <2>3. g = [n \in 0 .. N |-> g[n]]
    BY <1>5
  <2> QED BY <2>2, <2>3
<1>8. Eq(upto)
  <2> HIDE DEF Eq
  <2> QED BY <1>7
<1>9. \A n \in 0 .. N : upto[n] = IF n = 0 THEN << >> ELSE upto[n - 1] \o Code(block[n])
  <2> HIDE DEF upto
  <2> QED BY <1>8
<1> HIDE DEF upto, Eq
<1> DEFINE S == {n \in 0 .. N : upto[n] = g[n]}
<1>10. 0 \in S
  BY <1>2, <1>6, <1>9
<1>11. ASSUME NEW n \in 1 .. N, n - 1 \in S PROVE n \in S
  <2>1. n \in 0 .. N /\ n # 0 /\ upto[n - 1] = g[n - 1]
    BY <1>2, <1>11
  <2>2. upto[n] = upto[n - 1] \o Code(block[n])
    BY <1>9, <2>1
  <2> QED BY <1>6, <2>1, <2>2
<1>12. N \in S
  <2> HIDE DEF S
  <2>1. \A n \in 0 .. N : n \in S
    BY <1>2, <1>10, <1>11, BoundedInduction
  <2> QED BY <1>2, <2>1
<1>13. g[N] = Encoded(block)
  BY <1>1, <1>12
<1> QED BY <1>5, <1>6, <1>13 DEF N

(* A packet only grows: what it has after k bytes stays.                   *)
LEMMA PacketGrows ==
    ASSUME NEW N \in Nat, NEW f \in [0 .. N -> Seq(Int)],
           NEW c \in [1 .. N -> Seq(Int)], \A n \in 1 .. N : f[n] = f[n - 1] \o c[n],
           NEW k \in 0 .. N
    PROVE  \A n \in 0 .. N : n >= k => /\ Len(f[k]) <= Len(f[n])
                                       /\ \A i \in 1 .. Len(f[k]) : f[n][i] = f[k][i]
<1> DEFINE Kept(n) == n >= k => /\ Len(f[k]) <= Len(f[n])
                                /\ \A i \in 1 .. Len(f[k]) : f[n][i] = f[k][i]
           S == {n \in 0 .. N : Kept(n)}
<1>1. f[k] \in Seq(Int) /\ Len(f[k]) \in Nat
  BY LenProperties
<1>2. 0 \in S
  <2>1. 0 >= k => k = 0
    OBVIOUS
  <2>2. Kept(0)
    BY <1>1, <2>1
  <2> QED BY <2>2
<1>3. ASSUME NEW n \in 1 .. N, n - 1 \in S PROVE n \in S
  <2>1. f[n - 1] \in Seq(Int) /\ c[n] \in Seq(Int) /\ f[n] = f[n - 1] \o c[n]
    BY <1>3
  <2>2. /\ Len(f[n - 1]) \in Nat /\ Len(c[n]) \in Nat
        /\ Len(f[n]) = Len(f[n - 1]) + Len(c[n])
        /\ \A i \in 1 .. Len(f[n - 1]) : f[n][i] = f[n - 1][i]
    BY <2>1, LenProperties, ConcatProperties
  <2>3. CASE n = k
    <3>1. Kept(k)
      BY <1>1
    <3> QED BY <2>3, <3>1
  <2>4. CASE n > k
    <3>1. Len(f[k]) <= Len(f[n - 1]) /\ \A i \in 1 .. Len(f[k]) : f[n - 1][i] = f[k][i]
      BY <1>3, <2>4
    <3> DEFINE a == Len(f[k])
               b == Len(f[n - 1])
               d == Len(f[n])
    <3>2. a \in Nat /\ b \in Nat /\ a <= b /\ b <= d
      BY <1>1, <2>2, <3>1
    <3>3. \A i \in 1 .. b : f[n][i] = f[n - 1][i]
      BY <2>2
    <3>4. \A i \in 1 .. a : f[n - 1][i] = f[k][i]
      BY <3>1
    <3> HIDE DEF a, b, d
    <3>5. a <= d /\ \A i \in 1 .. a : f[n][i] = f[k][i]
      <4>1. \A i \in 1 .. a : i \in 1 .. b
        BY <3>2
      <4>2. a <= d
        BY <2>2, <3>2 DEF d, b
      <4> QED BY <3>3, <3>4, <4>1, <4>2
    <3>6. Kept(n)
      BY <3>5 DEF a, d
    <3> QED BY <3>6
  <2>5. CASE n < k
    BY <2>5
  <2> QED BY <2>3, <2>4, <2>5
<1> HIDE DEF S
<1>4. \A n \in 0 .. N : n \in S
  BY <1>2, <1>3, BoundedInduction
<1> QED BY <1>4 DEF S

(* What the handler of X makes of the packet is the block.                 *)
LEMMA DecodesBack ==
    ASSUME NEW block \in Seq(Byte)
    PROVE  Decoded(Encoded(block), Len(block)) = block
<1> DEFINE N == Len(block)
           content == Encoded(block)
           c == [n \in 1 .. N |-> Code(block[n])]
<1>1. N \in Nat /\ block = [n \in 1 .. N |-> block[n]] /\ \A n \in 1 .. N : block[n] \in Byte
  BY LenProperties, ElementOfSeq
<1>2. PICK f \in [0 .. N -> Seq(Int)] :
         /\ f[0] = << >> /\ f[N] = content
         /\ \A n \in 1 .. N : f[n] = f[n - 1] \o Code(block[n])
  <2> HIDE DEF content
  <2> QED BY EncodedIs DEF content
<1>3. c \in [1 .. N -> Seq(Int)] /\ \A n \in 1 .. N : f[n] = f[n - 1] \o c[n]
  BY <1>1, <1>2, CodeIs
<1> HIDE DEF N, content
<1> DEFINE start(n) == Len(f[n - 1]) + 1
<1>4. ASSUME NEW n \in 1 .. N
      PROVE  /\ f[n - 1] \in Seq(Int) /\ Len(f[n - 1]) \in Nat
             /\ Len(f[n]) = Len(f[n - 1]) + Len(Code(block[n]))
             /\ start(n) \in Nat /\ content[start(n)] = Code(block[n])[1]
             /\ block[n] \in Special => content[start(n) + 1] = Code(block[n])[2]
  <2>1. f[n - 1] \in Seq(Int) /\ n \in 0 .. N /\ N \in 0 .. N
    BY <1>1
  <2>2. block[n] \in Byte
    BY <1>1
  <2>3. Len(f[n - 1]) \in Nat /\ Code(block[n]) \in Seq(Int)
        /\ Len(Code(block[n])) = IF block[n] \in Special THEN 2 ELSE 1
    BY <2>1, <2>2, LenProperties, CodeIs
  <2> DEFINE k == Len(f[n - 1])
             j == Len(Code(block[n]))
  <2>4. /\ f[n] = f[n - 1] \o Code(block[n])
        /\ Len(f[n]) = k + j
        /\ \A i \in 1 .. k + j :
              f[n][i] = IF i <= k THEN f[n - 1][i] ELSE Code(block[n])[i - k]
    BY <1>2, <2>1, <2>3, ConcatProperties
  <2>5. \A i \in 1 .. k + j : content[i] = f[n][i]
    <3> HIDE DEF c, k, j
    <3>1. /\ \A i \in 1 .. Len(f[n]) : f[N][i] = f[n][i]
      <4>1. N >= n
        BY <1>1
      <4>2. N >= n => \A i \in 1 .. Len(f[n]) : f[N][i] = f[n][i]
        BY <1>1, <1>3, <2>1, PacketGrows
      <4> QED BY <4>1, <4>2
    <3> QED BY <1>2, <2>4, <3>1
  <2> HIDE DEF k, j
  <2>6. k \in Nat /\ j \in {1, 2} /\ (block[n] \in Special => j = 2)
    BY <2>3 DEF k, j
  <2> DEFINE first == k + 1
             second == k + 1 + 1
  <2>7. /\ first \in 1 .. k + j /\ ~(first <= k) /\ first - k = 1
        /\ block[n] \in Special => second \in 1 .. k + j /\ ~(second <= k) /\ second - k = 2
    BY <2>6
  <2> HIDE DEF first, second
  <2>8. content[first] = Code(block[n])[1]
    BY <2>4, <2>5, <2>7
  <2>9. block[n] \in Special => content[second] = Code(block[n])[2]
    BY <2>4, <2>5, <2>7
  <2>10. start(n) \in Nat /\ start(n) = first /\ start(n) + 1 = second
    BY <2>6 DEF k, first, second
  <2> HIDE DEF start
  <2> QED BY <2>1, <2>3, <2>4, <2>8, <2>9, <2>10 DEF k, j
<1>5. ASSUME NEW n \in 1 .. N
      PROVE  /\ start(n) \in Nat
             /\ content[start(n)] = Escape <=> block[n] \in Special
             /\ ContentByte(content, start(n)) = block[n]
  <2>1. block[n] \in Byte /\ Escape \in Special
    BY <1>1, GdbAssumption
  <2> HIDE DEF start
  <2>2. start(n) \in Nat /\ content[start(n)] = Code(block[n])[1]
    BY <1>4
  <2>3. block[n] \in Special => content[start(n) + 1] = Code(block[n])[2]
    BY <1>4
  <2>4. CASE block[n] \in Special
    <3>1. content[start(n)] = Escape /\ content[start(n) + 1] = Flipped(block[n])
      BY <2>1, <2>2, <2>3, <2>4, CodeIs
    <3> QED BY <2>1, <2>2, <2>4, <3>1, FlipsBack DEF ContentByte
  <2>5. CASE block[n] \notin Special
    <3>1. content[start(n)] = block[n] /\ block[n] # Escape
      BY <2>1, <2>2, <2>5, CodeIs
    <3> QED BY <2>1, <2>2, <2>5, <3>1 DEF ContentByte
  <2> QED BY <2>4, <2>5
<1> DEFINE Width1(at) == IF content[at] = Escape THEN 2 ELSE 1
<1>6. ASSUME NEW n \in 1 .. N, n # 1
      PROVE  n - 1 \in 1 .. N /\ start(n) = start(n - 1) + Width1(start(n - 1))
  <2>1. n - 1 \in 1 .. N /\ block[n - 1] \in Byte
    BY <1>1, <1>6
  <2>2. Len(f[n - 1]) = Len(f[n - 1 - 1]) + Len(Code(block[n - 1])) /\ Len(f[n - 1 - 1]) \in Nat
    BY <1>4, <2>1
  <2>3. Len(Code(block[n - 1])) = Width1(start(n - 1))
    BY <1>5, <2>1, CodeIs
  <2> HIDE DEF Width1
  <2>4. Len(Code(block[n - 1])) \in Nat
    BY <2>1, CodeIs
  <2> QED BY <2>1, <2>2, <2>3, <2>4
<1>7. 1 \in 1 .. N => start(1) = 1
  BY <1>2
<1> DEFINE Eq(at) == at = [n \in 1 .. N |-> IF n = 1 THEN 1 ELSE at[n - 1] + Width1(at[n - 1])]
           at == CHOOSE a : Eq(a)
           g == [n \in 1 .. N |-> start(n)]
<1>8. Decoded(content, N) = [n \in 1 .. N |-> ContentByte(content, at[n])]
  BY DEF Decoded
<1> HIDE DEF start, Width1
<1>9. Eq(g)
  <2>1. \A n \in 1 .. N : start(n) = IF n = 1 THEN 1 ELSE g[n - 1] + Width1(g[n - 1])
    BY <1>6, <1>7
  <2> QED BY <2>1
<1>10. Eq(at)
  <2> HIDE DEF Eq
  <2> QED BY <1>9
<1>11. \A n \in 1 .. N : at[n] = IF n = 1 THEN 1 ELSE at[n - 1] + Width1(at[n - 1])
  <2> HIDE DEF at
  <2> QED BY <1>10
<1> HIDE DEF at, Eq
<1> DEFINE S == {n \in 0 .. N : n = 0 \/ at[n] = start(n)}
<1>12. 0 \in S
  BY <1>1
<1>13. ASSUME NEW n \in 1 .. N, n - 1 \in S PROVE n \in S
  <2>1. CASE n = 1
    BY <1>7, <1>11, <2>1
  <2>2. CASE n # 1
    BY <1>6, <1>11, <1>13, <2>2
  <2> QED BY <2>1, <2>2
<1>14. \A n \in 1 .. N : at[n] = start(n)
  <2> HIDE DEF S
  <2>1. \A n \in 0 .. N : n \in S
    BY <1>1, <1>12, <1>13, BoundedInduction
  <2> QED BY <2>1 DEF S
<1>15. \A n \in 1 .. N : ContentByte(content, at[n]) = block[n]
  BY <1>5, <1>14 DEF start
<1> QED BY <1>1, <1>8, <1>15 DEF N, content

-----------------------------------------------------------------------------
(* The registers the debugger writes.  The sixteen writes of G are the     *)
(* loop of an LDM of all registers into the bank of the current mode.      *)
LEMMA OneMoreRegister ==
    ASSUME NEW q \in RegisterFileType, NEW mode, mode = registers_get_mode(q),
           NEW regs \in [0 .. 15 -> Word], NEW n \in 1 .. 16
    PROVE  LoadList(q, 0 .. (n - 1), mode, regs)
              = write_register(LoadList(q, 0 .. (n - 2), mode, regs), n - 1, regs[n - 1])
<1> DEFINE reg == n - 1
           old == LoadList(q, 0 .. (n - 2), mode, regs)
           new == LoadList(q, 0 .. reg, mode, regs)
           Hit(list, s) == \E i \in list : mode_ind(i, mode) # -1 /\ s = mode_ind(i, mode) + i
           ind == mode_ind(reg, mode)
<1>1. /\ reg \in 0 .. 15 /\ reg \in 0 .. reg
      /\ \A i : i \in 0 .. reg <=> (i \in 0 .. (n - 2) \/ i = reg)
  OBVIOUS
<1>2. ind # -1 => ind \in {0, 16, 32, 48, 64, 80} /\ ind + reg \in Slot
  BY <1>1, ModeIndexValues
<1>3. /\ old = [q EXCEPT !.genreg = [s \in Slot |-> IF Hit(0 .. (n - 2), s)
                                                    THEN regs[s % 16] ELSE q.genreg[s]]]
      /\ new = [q EXCEPT !.genreg = [s \in Slot |-> IF Hit(0 .. reg, s)
                                                    THEN regs[s % 16] ELSE q.genreg[s]]]
  BY DEF LoadList
<1>4. \A s : Hit(0 .. reg, s) <=> Hit(0 .. (n - 2), s) \/ (ind # -1 /\ s = ind + reg)
  <2> HIDE DEF reg
  <2> QED BY <1>1
<1>5. ind # -1 => (ind + reg) % 16 = reg
  BY <1>1, <1>2
<1> HIDE DEF Hit, reg, ind
<1>6. registers_get_mode(old) = mode
  BY <1>3 DEF registers_get_mode, RegisterFileType
<1>7. write_register(old, reg, regs[reg]) = registers_write(old, reg, mode, regs[reg])
  BY <1>6 DEF write_register
<1> HIDE DEF old, new
<1>8. CASE ind = -1
  <2>1. \A s : Hit(0 .. reg, s) <=> Hit(0 .. (n - 2), s)
    BY <1>4, <1>8
  <2>2. new = old
    BY <1>3, <2>1
  <2> QED BY <1>7, <1>8, <2>2 DEF registers_write, ind, new, old, reg
<1>9. CASE ind # -1
  <2>1. registers_write(old, reg, mode, regs[reg]) = [old EXCEPT !.genreg[ind + reg] = regs[reg]]
    BY <1>9 DEF registers_write, ind
  <2>2. \A s \in Slot : Hit(0 .. reg, s) <=> Hit(0 .. (n - 2), s) \/ s = ind + reg
    BY <1>4, <1>9
  <2> DEFINE slot == ind + reg
             G == [s \in Slot |-> IF Hit(0 .. (n - 2), s) THEN regs[s % 16] ELSE q.genreg[s]]
             H == [s \in Slot |-> IF Hit(0 .. reg, s) THEN regs[s % 16] ELSE q.genreg[s]]
  <2>3. slot \in Slot /\ slot % 16 = reg
    BY <1>2, <1>5, <1>9
  <2>4. H = [G EXCEPT ![slot] = regs[reg]]
    <3> HIDE DEF slot
    <3>1. \A s \in Slot : Hit(0 .. reg, s) <=> Hit(0 .. (n - 2), s) \/ s = slot
      BY <2>2 DEF slot
    <3> QED BY <2>3, <3>1
  <2>5. old = [q EXCEPT !.genreg = G] /\ new = [q EXCEPT !.genreg = H]
    BY <1>3
  <2> HIDE DEF G, H, slot
  <2>6. new = [old EXCEPT !.genreg[slot] = regs[reg]]
    BY <2>4, <2>5 DEF RegisterFileType
  <2> QED BY <1>7, <2>1, <2>6 DEF new, old, reg, slot
<1> QED BY <1>8, <1>9

LEMMA WriteAllIs ==
    ASSUME NEW q \in RegisterFileType, NEW regs \in [0 .. 15 -> Word]
    PROVE  WriteAll(q, regs) = LoadList(q, 0 .. 15, registers_get_mode(q), regs)
<1> DEFINE mode == registers_get_mode(q)
           upto(n) == LoadList(q, 0 .. (n - 1), mode, regs)
           Eq(f) == f = [n \in 0 .. 16 |-> IF n = 0 THEN q
                                           ELSE write_register(f[n - 1], n - 1, regs[n - 1])]
           after == CHOOSE f : Eq(f)
           g == [n \in 0 .. 16 |-> upto(n)]
<1>1. WriteAll(q, regs) = after[16]
  BY DEF WriteAll
<1>2. upto(0) = q
  <2>1. \A i : i \notin 0 .. (0 - 1)
    OBVIOUS
  <2>2. upto(0) = [q EXCEPT !.genreg = [s \in Slot |-> q.genreg[s]]]
    BY <2>1 DEF LoadList
  <2> QED BY <2>2 DEF RegisterFileType
<1>3. \A n \in 1 .. 16 : upto(n) = write_register(upto(n - 1), n - 1, regs[n - 1])
  <2> SUFFICES ASSUME NEW n \in 1 .. 16
               PROVE  upto(n) = write_register(upto(n - 1), n - 1, regs[n - 1])
    OBVIOUS
  <2>1. n - 1 - 1 = n - 2
    OBVIOUS
  <2>2. upto(n - 1) = LoadList(q, 0 .. (n - 2), mode, regs)
    BY <2>1
  <2>3. upto(n) = write_register(LoadList(q, 0 .. (n - 2), mode, regs), n - 1, regs[n - 1])
    BY OneMoreRegister
  <2> QED BY <2>2, <2>3
<1> HIDE DEF upto
<1>4. Eq(g)
  <2>1. \A n \in 0 .. 16 : upto(n) = IF n = 0 THEN q
                                     ELSE write_register(g[n - 1], n - 1, regs[n - 1])
    BY <1>2, <1>3
  <2> QED BY <2>1
<1>5. Eq(after)
  <2> HIDE DEF Eq
  <2> QED BY <1>4
<1>6. \A n \in 0 .. 16 : after[n] = IF n = 0 THEN q
                                    ELSE write_register(after[n - 1], n - 1, regs[n - 1])
  <2> HIDE DEF after
  <2> QED BY <1>5
<1> HIDE DEF after, Eq
<1> DEFINE S == {n \in 0 .. 16 : after[n] = upto(n)}
<1>7. 0 \in S
  BY <1>2, <1>6
<1>8. \A n \in 1 .. 16 : n - 1 \in S => n \in S
  BY <1>3, <1>6
<1>9. 16 \in S
  <2> HIDE DEF S
  <2>1. \A n \in 0 .. 16 : n \in S
    BY <1>7, <1>8, BoundedInduction
  <2> QED BY <2>1
<1>10. after[16] = upto(16)
  BY <1>9
<1>11. upto(16) = LoadList(q, 0 .. 15, mode, regs)
  BY DEF upto
<1> QED BY <1>1, <1>10, <1>11

LEMMA WrittenIsTyped ==
    ASSUME NEW q \in RegisterFileType, NEW file \in Files
    PROVE  Written(q, file) \in RegisterFileType
<1>1. file.regs \in [0 .. 15 -> Word] /\ file.cpsr \in Psr
  BY GdbAssumption
<1>2. \A regs \in [0 .. 15 -> Word] : WriteAll(q, regs) \in RegisterFileType
  <2> SUFFICES ASSUME NEW regs \in [0 .. 15 -> Word]
               PROVE  WriteAll(q, regs) \in RegisterFileType
    OBVIOUS
  <2>1. LoadList(q, 0 .. 15, registers_get_mode(q), regs) \in RegisterFileType
    BY LoadListType
  <2> QED BY <2>1, WriteAllIs
<1> QED BY <1>1, <1>2, WriteCpsrType DEF Written

(* The memory after an X is a memory: the bytes of the block where they go.*)
LEMMA OverwrittenIs ==
    ASSUME m \in Contents, NEW address \in Places, NEW block \in BlocksSent
    PROVE  LET after == Overwritten(address, Decoded(Encoded(block), Len(block)))
           IN  /\ after \in Contents
               /\ \A a \in Address : after[a] = IF a - address + 1 \in 1 .. Len(block)
                                                THEN block[a - address + 1] ELSE m[a]
<1>1. block \in Seq(Byte) /\ address \in Nat
  BY GdbAssumption
<1>2. Decoded(Encoded(block), Len(block)) = block
  BY <1>1, DecodesBack
<1>3. \A i \in 1 .. Len(block) : block[i] \in Byte
  BY <1>1, ElementOfSeq
<1> QED BY <1>2, <1>3 DEF Overwritten, Contents

(* Every request keeps the types, and so does an interrupt between two.    *)
LEMMA DebuggedStepIsTyped == ASSUME MachineTypeOK, step PROVE MachineTypeOK'
<1>1. TypeOK /\ m \in Contents /\ Fetched \in RegisterFileType
  BY FetchedType DEF MachineTypeOK
<1>2. CASE UNCHANGED m /\ (\/ ConditionFails
                           \/ Unimplemented
                           \/ \E number \in SwiNumber : SoftwareInterrupt(number))
  <2>1. Done(Fetched) \in OutcomeType /\ Undefined(Fetched) \in OutcomeType
    BY <1>1, DoneType
  <2>2. Outcome(Fetched, SOFTWARE_INTERRUPT) \in OutcomeType
    BY <1>1, OutcomeIsTyped
       DEF Result, SOFTWARE_INTERRUPT, SUCCESSFULLY_DECODED, END_SIMULATION
  <2>3. TypeOK'
    BY <1>1, <1>2, <2>1, <2>2, TypedStep, OtherIsNumber
       DEF ConditionFails, Unimplemented, SoftwareInterrupt, Execute
  <2> QED BY <1>1, <1>2, <2>3 DEF MachineTypeOK
<1>3. CASE /\ LoadStore(FALSE, 0, 0, FALSE, 0, 0, TRUE)
           /\ \E a \in Address, v \in BytesStored : m' = memory_write_byte(m, a, v)
  <2>1. 0 \in 0 .. 15 /\ 0 \in Word
    BY ZeroIsWord
  <2>2. TypeOK'
    BY <1>1, <1>3, <2>1, LoadStoreStep
  <2>3. m' \in Contents
    BY <1>1, <1>3, GdbAssumption DEF memory_write_byte, Contents
  <2> QED BY <2>2, <2>3 DEF MachineTypeOK
<1> QED BY <1>2, <1>3 DEF step

LEMMA SessionKeepsTypes == ASSUME MachineTypeOK, [SessionNext]_session PROVE MachineTypeOK'
<1>1. TypeOK /\ m \in Contents /\ p \in RegisterFileType
  BY DEF MachineTypeOK, TypeOK
<1>2. UNCHANGED machine => MachineTypeOK'
  BY <1>1 DEF machine, MachineTypeOK, TypeOK
<1>3. ASSUME p' \in RegisterFileType, UNCHANGED <<cycle_count, result, m>> PROVE MachineTypeOK'
  BY <1>1, <1>3 DEF MachineTypeOK, TypeOK
<1>4. ASSUME NEW file \in Files, write_general_registers(file) PROVE MachineTypeOK'
  BY <1>1, <1>3, <1>4, WrittenIsTyped DEF write_general_registers
<1>5. ASSUME NEW number \in Numbers, NEW value \in Values, write_single_register(number, value)
      PROVE  MachineTypeOK'
  <2>1. CASE number < 16
    <3>1. number \in 0 .. 15 /\ value \in Word
      BY <2>1, GdbAssumption
    <3>2. WritesTo(p, number, value) \in RegisterFileType
      BY <1>1, <3>1, WriteType DEF WritesTo, write_register
    <3> QED BY <1>3, <1>5, <2>1, <3>2 DEF write_single_register
  <2>2. CASE ~(number < 16)
    BY <1>2, <1>5, <2>2 DEF write_single_register, Abort
  <2> QED BY <2>1, <2>2
<1>6. ASSUME NEW address \in Places, NEW block \in BlocksSent, write_memory_binary(address, block)
      PROVE  MachineTypeOK'
  <2>1. m' = Overwritten(address, Decoded(Encoded(block), Len(block)))
    BY <1>6 DEF write_memory_binary
  <2>2. m' \in Contents
    BY <1>1, <2>1, OverwrittenIs
  <2> QED BY <1>1, <1>6, <2>2 DEF write_memory_binary, MachineTypeOK, TypeOK
<1>7. ASSUME NEW exception \in Sent, Interrupted(exception) PROVE MachineTypeOK'
  <2>1. exception \in Result
    BY InputsAssumption DEF Result, SUCCESSFULLY_DECODED, END_SIMULATION
  <2>2. arm_exception(p, exception, "other") \in OutcomeType
    BY <1>1, <2>1, ExceptionType, OtherIsNumber
  <2> QED BY <1>3, <1>7, <2>2 DEF Interrupted, Interrupt, OutcomeType
<1>8. CASE read_general_registers
  BY <1>2, <1>8 DEF read_general_registers
<1>9. ASSUME NEW number \in Numbers, read_single_register(number) PROVE MachineTypeOK'
  BY <1>2, <1>9 DEF read_single_register, Abort
<1>10. ASSUME NEW address \in Places, NEW size \in Lengths, read_memory(address, size)
       PROVE  MachineTypeOK'
  BY <1>2, <1>10 DEF read_memory
<1>11. ASSUME NEW type, NEW value, set_thread(type, value) PROVE MachineTypeOK'
  BY <1>2, <1>11 DEF set_thread
<1>12. ASSUME NEW name, query(name) PROVE MachineTypeOK'
  BY <1>2, <1>12 DEF query
<1>13. CASE reason
  BY <1>2, <1>13 DEF reason
<1>14. CASE UNCHANGED session
  BY <1>2, <1>14 DEF session, machine
<1> QED BY <1>4, <1>5, <1>6, <1>7, <1>8, <1>9, <1>10, <1>11, <1>12, <1>13, <1>14,
           DebuggedStepIsTyped DEF SessionNext

LEMMA SessionInitIsTyped == ASSUME SessionInit PROVE MachineTypeOK
<1>1. m \in Contents
  BY MemoryAssumption DEF SessionInit, Contents, Byte
<1>2. p \in RegisterFileType
  BY GdbAssumption DEF SessionInit
<1>3. cycle_count \in 0 .. MaxCycles
  BY InputsAssumption DEF SessionInit
<1>4. result \in Result
  BY DEF SessionInit, Result, SUCCESSFULLY_DECODED, END_SIMULATION
<1> QED BY <1>1, <1>2, <1>3, <1>4 DEF MachineTypeOK, TypeOK

(* Whatever the debugger writes, a G into another mode, a register number  *)
(* that is none, a block that ends beyond the memory: registers hold words *)
(* and the memory bytes (src/gdb_protocol.c lines 214-387).                *)
THEOREM SessionIsTyped == SessionSpec => []MachineTypeOK
<1>1. MachineTypeOK /\ [SessionNext]_session => MachineTypeOK'
  BY SessionKeepsTypes
<1> QED BY <1>1, SessionInitIsTyped, PTL DEF SessionSpec

-----------------------------------------------------------------------------
(* The request tells which handler answered.                               *)
LEMMA RequestTells ==
    ASSUME SessionNext
    PROVE  /\ request'.kind = "X" =>
                 \E address \in Places, block \in BlocksSent : write_memory_binary(address, block)
           /\ request'.kind = "m" =>
                 \E address \in Places, size \in Lengths : read_memory(address, size)
           /\ request'.kind = "G" => \E file \in Files : write_general_registers(file)
           /\ request'.kind = "P" =>
                 \E number \in Numbers, value \in Values : write_single_register(number, value)
           /\ request'.kind = "p" => \E number \in Numbers : read_single_register(number)
<1> DEFINE Asked(kind) == request'.kind = kind
<1>1. read_general_registers => Asked("g")
  BY DEF read_general_registers, Ask
<1>2. \A file : write_general_registers(file) => Asked("G")
  BY DEF write_general_registers, Ask
<1>3. \A number : read_single_register(number) => Asked("p")
  BY DEF read_single_register, Ask
<1>4. \A number, value : write_single_register(number, value) => Asked("P")
  BY DEF write_single_register, Ask
<1>5. \A address, size : read_memory(address, size) => Asked("m")
  BY DEF read_memory, Ask
<1>6. \A address, block : write_memory_binary(address, block) => Asked("X")
  BY DEF write_memory_binary, Ask
<1>7. \A type, value : set_thread(type, value) => Asked("H")
  BY DEF set_thread, Ask
<1>8. \A name : query(name) => Asked("q")
  <2>1. \A name : query(name) => request' = [kind |-> "q", name |-> name]
    BY Zenon DEF query, Ask
  <2> QED BY <2>1
<1>9. reason => Asked("?")
  BY DEF reason, Ask
<1>10. step => Asked("s")
  BY DEF step, Ask
<1>11. \A exception : Interrupted(exception) => Asked("none")
  BY DEF Interrupted, Nothing
<1> QED BY <1>1, <1>2, <1>3, <1>4, <1>5, <1>6, <1>7, <1>8, <1>9, <1>10, <1>11 DEF SessionNext

(* An X writes its block where it says, and no other byte; when it is      *)
(* acknowledged, all of the block.                                         *)
Fits(x)         == \A i \in 1 .. Len(x.block) : x.address + i <= Size
Holds(c, x)     == \A i \in 1 .. Len(x.block) : c[x.address + i - 1] = x.block[i]
BlockOf(a, b)   == [kind |-> "X", address |-> a, block |-> b]

LEMMA BlockIsWritten ==
    ASSUME m \in Contents, NEW address \in Places, NEW block \in BlocksSent,
           write_memory_binary(address, block)
    PROVE  /\ request' = BlockOf(address, block)
           /\ \A a \in Address : m'[a] # m[a] => a \in address .. (address + Len(block) - 1)
           /\ reply'.kind = "OK" => /\ address < Size
                                    /\ Fits(BlockOf(address, block))
                                    /\ Holds(m', BlockOf(address, block))
<1>1. address \in Nat /\ block \in Seq(Byte) /\ Len(block) \in Nat
  BY GdbAssumption, LenProperties
<1>2. \A a \in Address : m'[a] = IF a - address + 1 \in 1 .. Len(block)
                                 THEN block[a - address + 1] ELSE m[a]
  BY OverwrittenIs DEF write_memory_binary
<1>3. request' = BlockOf(address, block)
  BY DEF write_memory_binary, Ask, BlockOf
<1> DEFINE N == Len(block)
<1>4. reply'.kind = "OK" => WriteOk(address, N)
  BY DEF write_memory_binary, Answer, OK, Error
<1>5. N \in Nat /\ \A a \in Address : m'[a] = IF a - address + 1 \in 1 .. N
                                              THEN block[a - address + 1] ELSE m[a]
  BY <1>1, <1>2
<1>6. Fits(BlockOf(address, block)) <=> \A i \in 1 .. N : address + i <= Size
  BY DEF Fits, BlockOf
<1>7. Holds(m', BlockOf(address, block)) <=> \A i \in 1 .. N : m'[address + i - 1] = block[i]
  BY DEF Holds, BlockOf
<1> HIDE DEF N
<1>8. \A a \in Address : m'[a] # m[a] => a \in address .. (address + N - 1)
  BY <1>1, <1>5, MemoryAssumption DEF Address
<1>9. ASSUME WriteOk(address, N), NEW i \in 1 .. N
      PROVE  address + i <= Size /\ m'[address + i - 1] = block[i]
  <2> DEFINE a == address + i - 1
  <2>1. address + i <= Size /\ a \in Address /\ a - address + 1 = i
    BY <1>1, <1>5, <1>9, MemoryAssumption DEF WriteOk, Address
  <2> HIDE DEF a
  <2>2. m'[a] = block[i]
    BY <1>5, <2>1
  <2> QED BY <2>1, <2>2 DEF a
<1> QED BY <1>3, <1>4, <1>6, <1>7, <1>8, <1>9 DEF N, WriteOk

(* A block is acknowledged when all of it is in memory, and an X changes   *)
(* no byte outside its block, at the end of the memory and with escaped    *)
(* bytes in the packet (src/gdb_protocol.c lines 369-386).                 *)
THEOREM OnlyWholeBlocksAcknowledged == SessionSpec => AcknowledgedWhole
<1> DEFINE Whole == \A x \in {request'} : x.kind = "X" =>
              LET last == x.address + Len(x.block) - 1
              IN  /\ \A a \in Address : m'[a] # m[a] => a \in x.address .. last
                  /\ reply'.kind = "OK" =>
                        \A i \in 1 .. Len(x.block) :
                           x.address + i <= Size /\ m'[x.address + i - 1] = x.block[i]
<1>1. MachineTypeOK /\ [SessionNext]_session => [Whole]_session
  <2> SUFFICES ASSUME MachineTypeOK, SessionNext, request'.kind = "X" PROVE Whole
    OBVIOUS
  <2>1. PICK address \in Places, block \in BlocksSent : write_memory_binary(address, block)
    BY RequestTells
  <2>2. m \in Contents
    BY DEF MachineTypeOK
  <2>3. /\ request' = BlockOf(address, block)
        /\ \A a \in Address : m'[a] # m[a] => a \in address .. (address + Len(block) - 1)
        /\ reply'.kind = "OK" => Fits(request') /\ Holds(m', request')
    BY <2>1, <2>2, BlockIsWritten
  <2>4. request'.address = address /\ request'.block = block
    BY <2>3 DEF BlockOf
  <2> QED BY <2>3, <2>4 DEF Fits, Holds
<1> QED BY <1>1, SessionIsTyped, PTL DEF SessionSpec, AcknowledgedWhole

(* While an acknowledged X is the last request, its block is in memory.    *)
BlockIsHeld ==
    (request.kind = "X" /\ reply.kind = "OK") =>
       /\ request.address \in Places /\ request.block \in BlocksSent
       /\ request.address < Size /\ Fits(request) /\ Holds(m, request)

LEMMA HeldBlockIsKept ==
    ASSUME MachineTypeOK, BlockIsHeld, [SessionNext]_session
    PROVE  BlockIsHeld'
<1>1. CASE UNCHANGED session
  <2>1. UNCHANGED <<m, request, reply>>
    BY <1>1 DEF session, machine
  <2> QED BY <2>1 DEF BlockIsHeld, Fits, Holds
<1>2. CASE SessionNext
  <2> SUFFICES ASSUME request'.kind = "X", reply'.kind = "OK" PROVE BlockIsHeld'
    BY DEF BlockIsHeld
  <2>1. PICK address \in Places, block \in BlocksSent : write_memory_binary(address, block)
    BY <1>2, RequestTells
  <2>2. m \in Contents
    BY DEF MachineTypeOK
  <2>3. /\ request' = BlockOf(address, block) /\ address < Size
        /\ Fits(request') /\ Holds(m', request')
    BY <2>1, <2>2, BlockIsWritten
  <2>4. request'.address = address /\ request'.block = block
    BY <2>3 DEF BlockOf
  <2>5. /\ request'.address \in Places /\ request'.block \in BlocksSent
        /\ request'.address < Size
    BY <2>1, <2>3, <2>4
  <2> QED BY <2>3, <2>5 DEF BlockIsHeld, Fits, Holds
<1> QED BY <1>1, <1>2

(* What m answers over a block the memory holds is the block.              *)
LEMMA HeldBlockIsRead ==
    ASSUME NEW address \in Places, NEW block \in BlocksSent,
           Fits(BlockOf(address, block)), Holds(m, BlockOf(address, block))
    PROVE  MemoryBytes(address, Len(block)) = block
<1> DEFINE N == Len(block)
<1>1. address \in Nat /\ block \in Seq(Byte)
  BY GdbAssumption
<1>2. N \in Nat /\ block = [i \in 1 .. N |-> block[i]]
  BY <1>1, LenProperties
<1>3. \A i \in 1 .. N : address + i <= Size /\ m[address + i - 1] = block[i]
  BY DEF Fits, Holds, BlockOf
<1>4. MemoryBytes(address, N) =
         [i \in 1 .. N |-> m[IF byte_refused(address + i - 1) THEN Size - 1
                             ELSE address + i - 1]]
  BY DEF MemoryBytes, memory_read_byte
<1> HIDE DEF N
<1>5. \A i \in 1 .. N : ~byte_refused(address + i - 1)
  BY <1>1, <1>2, <1>3, MemoryAssumption DEF byte_refused
<1>6. MemoryBytes(address, N) = [i \in 1 .. N |-> block[i]]
  BY <1>3, <1>4, <1>5
<1> QED BY <1>2, <1>6 DEF N

(* An acknowledged block is read back, byte for byte, by the m that        *)
(* follows its X, whatever bytes it has                                    *)
(* (src/gdb_protocol.c lines 258-275 and 361-387).                         *)
THEOREM BlocksAreReadBack == SessionSpec => BlocksReadBack
<1> DEFINE IInv == MachineTypeOK /\ BlockIsHeld
           ReadBack == \A x \in {request}, r \in {request'} :
              (/\ x.kind = "X" /\ reply.kind = "OK"
               /\ r.kind = "m" /\ r.address = x.address /\ r.size = Len(x.block)) =>
                 reply' = Bytes(x.block)
<1>1. SessionInit => IInv
  BY SessionInitIsTyped DEF SessionInit, BlockIsHeld, Nothing
<1>2. IInv /\ [SessionNext]_session => IInv'
  BY SessionKeepsTypes, HeldBlockIsKept
<1>3. IInv /\ [SessionNext]_session => [ReadBack]_session
  <2> SUFFICES ASSUME IInv, SessionNext, request.kind = "X", reply.kind = "OK",
                      request'.kind = "m", request'.address = request.address,
                      request'.size = Len(request.block)
               PROVE  reply' = Bytes(request.block)
    BY DEF ReadBack
  <2>1. PICK address \in Places, size \in Lengths : read_memory(address, size)
    BY RequestTells
  <2>2. address = request.address /\ size = Len(request.block)
    BY <2>1 DEF read_memory, Ask
  <2>3. PICK block \in BlocksSent : block = request.block
    BY DEF BlockIsHeld
  <2>4. address < Size /\ Fits(BlockOf(address, block)) /\ Holds(m, BlockOf(address, block))
    BY <2>2, <2>3 DEF BlockIsHeld, Fits, Holds, BlockOf
  <2>5. MemoryBytes(address, size) = block
    BY <2>2, <2>3, <2>4, HeldBlockIsRead
  <2> QED BY <2>1, <2>3, <2>4, <2>5 DEF read_memory, Answer
<1> QED BY <1>1, <1>2, <1>3, PTL DEF SessionSpec, BlocksReadBack

-----------------------------------------------------------------------------
(* The sixteen registers of a mode lie in slots of their own.              *)
LEMMA SlotsApart ==
    ASSUME NEW mode \in Modes, NEW i \in 0 .. 15, NEW j \in 0 .. 15
    PROVE  /\ mode_ind(i, mode) # -1 /\ mode_ind(i, mode) + i \in Slot
           /\ (mode_ind(i, mode) + i) % 16 = i
           /\ mode_ind(i, mode) + i = mode_ind(j, mode) + j => i = j
<1>1. /\ mode_ind(i, mode) \in {0, 16, 32, 48, 64, 80} /\ mode_ind(i, mode) + i \in Slot
      /\ mode_ind(j, mode) \in {0, 16, 32, 48, 64, 80}
  BY ModeIndexValues
<1> DEFINE x == mode_ind(i, mode)
           y == mode_ind(j, mode)
<1> HIDE DEF x, y
<1>2. x \in {0, 16, 32, 48, 64, 80} /\ y \in {0, 16, 32, 48, 64, 80}
  BY <1>1 DEF x, y
<1>3. (x + i) % 16 = i /\ (y + j) % 16 = j /\ x # -1
  BY <1>2
<1> QED BY <1>1, <1>3 DEF x, y

LEMMA SeenIs ==
    ASSUME NEW q
    PROVE  Seen(q) = [i \in 0 .. 15 |-> read_register(q, i)]
BY DEF Seen, GeneralRegisters

(* After a P: the new value in its register, the old ones elsewhere.       *)
LEMMA OneWriteSeen ==
    ASSUME NEW q \in RegisterFileType, registers_get_mode(q) \in Modes,
           NEW number \in 0 .. 15, NEW value \in Word
    PROVE  LET after == write_register(q, number, value)
           IN  /\ Seen(after) = [Seen(q) EXCEPT ![number] = value]
               /\ after.CPSR = q.CPSR
<1> DEFINE mode == registers_get_mode(q)
           after == write_register(q, number, value)
           at(i) == mode_ind(i, mode) + i
<1>1. \A i \in 0 .. 15 : at(i) \in Slot /\ mode_ind(i, mode) # -1 /\ (at(i) = at(number) => i = number)
  BY SlotsApart
<1>2. after = [q EXCEPT !.genreg[at(number)] = value]
  BY <1>1 DEF write_register, registers_write
<1>3. after.CPSR = q.CPSR /\ after.genreg = [q.genreg EXCEPT ![at(number)] = value]
  BY <1>2 DEF RegisterFileType
<1>4. \A i \in 0 .. 15 : read_register(q, i) = q.genreg[at(i)]
  BY <1>1 DEF read_register, registers_read
<1>5. registers_get_mode(after) = mode
  BY <1>3 DEF registers_get_mode
<1> HIDE DEF after
<1>6. \A i \in 0 .. 15 : read_register(after, i) = after.genreg[at(i)]
  BY <1>1, <1>5 DEF read_register, registers_read
<1>7. q.genreg \in [Slot -> Word]
  BY DEF RegisterFileType
<1> HIDE DEF at, mode
<1>8. \A i \in 0 .. 15 : read_register(after, i) = IF i = number THEN value ELSE read_register(q, i)
  BY <1>1, <1>3, <1>4, <1>6, <1>7
<1>9. Seen(after) = [Seen(q) EXCEPT ![number] = value]
  BY <1>8, SeenIs
<1> QED BY <1>3, <1>9 DEF after

(* After a G that keeps the mode: the registers that were sent.            *)
LEMMA FileWriteSeen ==
    ASSUME NEW q \in RegisterFileType, registers_get_mode(q) \in Modes,
           NEW regs \in [0 .. 15 -> Word], NEW cpsr \in Psr,
           cpsr \cap ModeField = registers_get_mode(q)
    PROVE  LET after == registers_write_cpsr(WriteAll(q, regs), cpsr)
           IN  Seen(after) = regs /\ after.CPSR = cpsr
<1> DEFINE mode == registers_get_mode(q)
           all == WriteAll(q, regs)
           after == registers_write_cpsr(all, cpsr)
           at(i) == mode_ind(i, mode) + i
           Hit(s) == \E i \in 0 .. 15 : mode_ind(i, mode) # -1 /\ s = at(i)
<1>1. \A i \in 0 .. 15 : at(i) \in Slot /\ mode_ind(i, mode) # -1 /\ at(i) % 16 = i
  BY SlotsApart
<1>2. all = [q EXCEPT !.genreg = [s \in Slot |-> IF Hit(s) THEN regs[s % 16] ELSE q.genreg[s]]]
  <2>1. all = LoadList(q, 0 .. 15, mode, regs)
    BY WriteAllIs
  <2> QED BY <2>1 DEF LoadList
<1> HIDE DEF Hit
<1>3. /\ all.genreg = [s \in Slot |-> IF Hit(s) THEN regs[s % 16] ELSE q.genreg[s]]
      /\ all \in RegisterFileType
  <2>1. LoadList(q, 0 .. 15, mode, regs) \in RegisterFileType
    BY LoadListType
  <2>2. all \in RegisterFileType
    BY <2>1, WriteAllIs
  <2> HIDE DEF all
  <2> QED BY <1>2, <2>2 DEF RegisterFileType
<1> HIDE DEF all
<1>4. after.CPSR = cpsr /\ after.genreg = all.genreg
  BY <1>3 DEF registers_write_cpsr, RegisterFileType
<1>5. registers_get_mode(after) = mode
  BY <1>4 DEF registers_get_mode
<1> HIDE DEF after
<1>6. \A i \in 0 .. 15 : read_register(after, i) = after.genreg[at(i)]
  BY <1>1, <1>5 DEF read_register, registers_read
<1>7. \A i \in 0 .. 15 : Hit(at(i))
  BY <1>1 DEF Hit
<1> HIDE DEF at, mode
<1>8. \A i \in 0 .. 15 : read_register(after, i) = regs[i]
  BY <1>1, <1>3, <1>4, <1>6, <1>7
<1>9. Seen(after) = [i \in 0 .. 15 |-> regs[i]]
  BY <1>8, SeenIs
<1> QED BY <1>4, <1>9 DEF after, all

(* The registers the debugger reads are those it wrote, in the bank of     *)
(* whatever mode the target is in: after a P, after a G that keeps the     *)
(* mode, and with a p whose number is below ten                            *)
(* (src/gdb_protocol.c lines 214-256, 277-282 and 309-359).                *)
THEOREM RegistersAreReadBack == SessionSpec => RegistersReadBack
<1> DEFINE ReadBack ==
       registers_get_mode(p) \in Modes =>
          /\ (request'.kind = "P" /\ ~aborted') =>
                /\ Seen(p') = [Seen(p) EXCEPT ![request'.number] = request'.value]
                /\ p'.CPSR = p.CPSR
          /\ (request'.kind = "G" /\ registers_get_mode(p') = registers_get_mode(p)) =>
                /\ Seen(p') = request'.file.regs
                /\ p'.CPSR = request'.file.cpsr
          /\ (request'.kind = "p" /\ request'.number < 10) =>
                reply' = [kind |-> "register", value |-> Seen(p)[request'.number]]
<1>1. MachineTypeOK /\ [SessionNext]_session => [ReadBack]_session
  <2> SUFFICES ASSUME MachineTypeOK, SessionNext, registers_get_mode(p) \in Modes PROVE ReadBack
    OBVIOUS
  <2>1. p \in RegisterFileType
    BY DEF MachineTypeOK, TypeOK
  <2>2. ASSUME request'.kind = "P", ~aborted'
        PROVE  /\ Seen(p') = [Seen(p) EXCEPT ![request'.number] = request'.value]
               /\ p'.CPSR = p.CPSR
    <3>1. PICK number \in Numbers, value \in Values : write_single_register(number, value)
      BY <2>2, RequestTells
    <3>2. request'.number = number /\ request'.value = value
      BY <3>1 DEF write_single_register, Ask
    <3>3. number < 16 /\ p' = write_register(p, number, value)
      BY <2>2, <3>1 DEF write_single_register, Abort, WritesTo
    <3>4. number \in 0 .. 15 /\ value \in Word
      BY <3>3, GdbAssumption
    <3> QED BY <2>1, <3>2, <3>3, <3>4, OneWriteSeen
  <2>3. ASSUME request'.kind = "G", registers_get_mode(p') = registers_get_mode(p)
        PROVE  Seen(p') = request'.file.regs /\ p'.CPSR = request'.file.cpsr
    <3>1. PICK file \in Files : write_general_registers(file)
      BY <2>3, RequestTells
    <3>2. request'.file = file
      BY <3>1 DEF write_general_registers, Ask
    <3>3. PICK regs \in [0 .. 15 -> Word] : regs = file.regs
      BY GdbAssumption
    <3>4. PICK cpsr \in Psr : cpsr = file.cpsr
      BY GdbAssumption
    <3>5. p' = registers_write_cpsr(WriteAll(p, regs), cpsr)
      BY <3>1, <3>3, <3>4 DEF write_general_registers, Written
    <3>6. cpsr \cap ModeField = registers_get_mode(p)
      <4>1. WriteAll(p, regs) \in RegisterFileType
        <5>1. LoadList(p, 0 .. 15, registers_get_mode(p), regs) \in RegisterFileType
          BY <2>1, LoadListType
        <5> QED BY <2>1, <5>1, WriteAllIs
      <4>2. p'.CPSR = cpsr
        BY <3>5, <4>1 DEF registers_write_cpsr, RegisterFileType
      <4> QED BY <2>3, <4>2 DEF registers_get_mode
    <3> QED BY <2>1, <3>2, <3>3, <3>4, <3>5, <3>6, FileWriteSeen
  <2>4. ASSUME request'.kind = "p", request'.number < 10
        PROVE  reply' = [kind |-> "register", value |-> Seen(p)[request'.number]]
    <3>1. PICK number \in Numbers : read_single_register(number)
      BY <2>4, RequestTells
    <3>2. request'.number = number
      BY <3>1 DEF read_single_register, Ask
    <3>3. number \in 0 .. 9 /\ number \in 0 .. 15
      BY <2>4, <3>2, GdbAssumption
    <3>4. Atoi(number) = number /\ number < 16
      BY <3>3 DEF Atoi
    <3>5. reply' = [kind |-> "register", value |-> read_register(p, number)]
      BY <3>1, <3>4 DEF read_single_register, Answer
    <3>6. Seen(p)[number] = read_register(p, number)
      BY <3>3, SeenIs
    <3> QED BY <3>2, <3>5, <3>6
  <2> QED BY <2>2, <2>3, <2>4
<1> QED BY <1>1, SessionIsTyped, PTL DEF SessionSpec, RegistersReadBack

-----------------------------------------------------------------------------
(* Where the words of a block are.  Counted from the base as the addressing*)
(* mode says, or from the start address as the loops do: the same place.   *)
LEMMA PlaceIsAddress ==
    ASSUME NEW q \in RegisterFileType, NEW b \in Blocks, NEW i \in b.list
    PROVE  PlaceOf(arm_read_register(q, b.rn), b, i) = AddressOf(StartOf(q, b), i, b.list)
<1> DEFINE base == arm_read_register(q, b.rn)
           n == Cardinality(b.list)
           r == Rank(i, b.list)
<1>1. base \in Int /\ base % WordMod = base
  BY ArmReadType, BlockFields, WordWraps
<1>2. n \in Int /\ r \in Int /\ BlockSize(b.list) = 4 * n /\ b.U \in BOOLEAN /\ b.P \in BOOLEAN
  <2>1. b.list \in SUBSET (0 .. 15) /\ b.U \in BOOLEAN /\ b.P \in BOOLEAN
    BY BlockFields
  <2>2. \A list \in SUBSET (0 .. 15) :
           /\ Cardinality(list) \in Nat /\ BlockSize(list) = 4 * Cardinality(list)
           /\ \A k \in list : Rank(k, list) \in Nat
    BY ListIsFinite
  <2> QED BY <2>1, <2>2
<1>3. AddressOf(StartOf(q, b), i, b.list) = Plus(start_address(base, b), 4 * r)
  BY DEF AddressOf, StartOf
<1>4. PlaceOf(base, b, i) = CASE b.U /\ ~b.P  -> Plus(base, 4 * r)
                              [] b.U /\ b.P   -> Plus(base, 4 * (r + 1))
                              [] ~b.U /\ ~b.P -> Minus(base, 4 * (n - 1 - r))
                              [] ~b.U /\ b.P  -> Minus(base, 4 * (n - r))
  BY DEF PlaceOf
<1>5. start_address(base, b) = CASE b.U /\ ~b.P  -> base
                                 [] b.U /\ b.P   -> Plus(base, 4)
                                 [] ~b.U /\ ~b.P -> Minus(base, 4 * n - 4)
                                 [] ~b.U /\ b.P  -> Minus(base, 4 * n)
  BY <1>2 DEF start_address
<1> HIDE DEF base, n, r
<1>6. ASSUME NEW k \in Int PROVE Plus(Plus(base, k), 4 * r) = Plus(base, k + 4 * r)
  <2>1. (((base + k) % WordMod) + 4 * r) % WordMod = (base + k + 4 * r) % WordMod
    BY <1>1, <1>2, WrapOnce
  <2>2. base + k + 4 * r = base + (k + 4 * r)
    BY <1>1, <1>2
  <2> QED BY <2>1, <2>2 DEF Plus
<1>7. ASSUME NEW k \in Int PROVE Minus(base, k) = Plus(base, -k)
  <2>1. base - k = base + (-k)
    BY <1>1
  <2> QED BY <2>1 DEF Plus, Minus
<1>8. /\ 4 + 4 * r = 4 * (r + 1) /\ 4 * n \in Int /\ 4 * n - 4 \in Int
      /\ -(4 * n - 4) \in Int /\ -(4 * n) \in Int
      /\ -(4 * n - 4) + 4 * r = -(4 * (n - 1 - r)) /\ 4 * (n - 1 - r) \in Int
      /\ -(4 * n) + 4 * r = -(4 * (n - r)) /\ 4 * (n - r) \in Int
  BY <1>2
<1>9. CASE b.U /\ ~b.P
  BY <1>3, <1>4, <1>5, <1>9 DEF base
<1>10. CASE b.U /\ b.P
  <2>1. Plus(Plus(base, 4), 4 * r) = Plus(base, 4 + 4 * r)
    BY <1>6
  <2> QED BY <1>3, <1>4, <1>5, <1>8, <1>10, <2>1 DEF base
<1>11. CASE ~b.U /\ ~b.P
  <2>1. Plus(Plus(base, -(4 * n - 4)), 4 * r) = Plus(base, -(4 * n - 4) + 4 * r)
    BY <1>6, <1>8
  <2>2. /\ Minus(base, 4 * n - 4) = Plus(base, -(4 * n - 4))
        /\ Minus(base, 4 * (n - 1 - r)) = Plus(base, -(4 * (n - 1 - r)))
    BY <1>7, <1>8
  <2> QED BY <1>3, <1>4, <1>5, <1>8, <1>11, <2>1, <2>2 DEF base
<1>12. CASE ~b.U /\ b.P
  <2>1. Plus(Plus(base, -(4 * n)), 4 * r) = Plus(base, -(4 * n) + 4 * r)
    BY <1>6, <1>8
  <2>2. /\ Minus(base, 4 * n) = Plus(base, -(4 * n))
        /\ Minus(base, 4 * (n - r)) = Plus(base, -(4 * (n - r)))
    BY <1>7, <1>8
  <2> QED BY <1>3, <1>4, <1>5, <1>8, <1>12, <2>1, <2>2 DEF base
<1> QED BY <1>2, <1>9, <1>10, <1>11, <1>12

(* The registers of a list have ranks of their own, below sixteen.         *)
LEMMA RanksAscend ==
    ASSUME NEW list \in SUBSET (0 .. 15), NEW i \in list, NEW j \in list, i < j
    PROVE  Rank(i, list) \in 0 .. 15 /\ Rank(j, list) \in 0 .. 15 /\ Rank(i, list) < Rank(j, list)
<1> DEFINE A == {k \in list : k < i}
           B == {k \in list : k < j}
<1>1. IsFiniteSet(0 .. 15) /\ Cardinality(0 .. 15) = 16
  <2>1. 0 \in Int /\ 15 \in Int
    OBVIOUS
  <2>2. IsFiniteSet(0 .. 15) /\ Cardinality(0 .. 15) = IF 0 > 15 THEN 0 ELSE 15 - 0 + 1
    BY <2>1, FS_Interval, Zenon
  <2> QED BY <2>2
<1>2. A \subseteq B /\ i \in B /\ i \notin A /\ B \subseteq 0 .. 15 /\ j \in 0 .. 15 /\ j \notin B
  <2>1. \A k \in list : k \in 0 .. 15
    OBVIOUS
  <2>2. i \in 0 .. 15 /\ j \in 0 .. 15 /\ \A k \in list : k < i => k < j
    BY <2>1
  <2>3. ~(i < i) /\ ~(j < j)
    BY <2>2
  <2> QED BY <2>1, <2>2, <2>3
<1> HIDE DEF A, B
<1>3. /\ IsFiniteSet(B) /\ Cardinality(B) \in Nat /\ Cardinality(B) <= Cardinality(0 .. 15)
      /\ Cardinality(B) = Cardinality(0 .. 15) => B = 0 .. 15
  BY <1>1, <1>2, FS_Subset, FS_CardinalityType
<1>4. /\ IsFiniteSet(A) /\ Cardinality(A) \in Nat /\ Cardinality(A) <= Cardinality(B)
      /\ Cardinality(A) = Cardinality(B) => A = B
  BY <1>2, <1>3, FS_Subset, FS_CardinalityType
<1>5. Rank(i, list) = Cardinality(A) /\ Rank(j, list) = Cardinality(B)
  BY DEF Rank, A, B
<1> QED BY <1>1, <1>2, <1>3, <1>4, <1>5

(* Their words lie apart: no byte of one is a byte of another.             *)
LEMMA WordsApart ==
    ASSUME NEW start \in Word, NEW list \in SUBSET (0 .. 15), NEW i \in list, NEW j \in list, i # j,
           NEW x \in 0 .. 3, NEW y \in 0 .. 3
    PROVE  AddressOf(start, i, list) + x # AddressOf(start, j, list) + y
<1> SUFFICES ASSUME NEW k \in list, NEW l \in list, k < l, NEW v \in 0 .. 3, NEW w \in 0 .. 3,
                    AddressOf(start, k, list) + v = AddressOf(start, l, list) + w
             PROVE  FALSE
  <2>1. i < j \/ j < i
    OBVIOUS
  <2> QED BY <2>1
<1> DEFINE a == start + 4 * Rank(k, list)
           n == 4 * Rank(l, list) - 4 * Rank(k, list)
<1>1. Rank(k, list) \in 0 .. 15 /\ Rank(l, list) \in 0 .. 15 /\ Rank(k, list) < Rank(l, list)
  BY RanksAscend
<1>2. start \in Int /\ WordMod \in Nat /\ WordMod >= 64
  BY WordWraps, LoadStoreAssumption, WordAssumption
<1>3. a \in Int /\ n \in 4 .. 60 /\ a + n = start + 4 * Rank(l, list)
  BY <1>1, <1>2
<1>4. AddressOf(start, k, list) = a % WordMod /\ AddressOf(start, l, list) = (a + n) % WordMod
  BY <1>3 DEF AddressOf, Plus
<1> HIDE DEF a, n
<1>5. (a % WordMod) + v = ((a + n) % WordMod) + w
  BY <1>4
<1> DEFINE z == a % WordMod
           u == (a + n) % WordMod
           d == v - w
<1>6. z \in 0 .. (WordMod - 1) /\ u \in 0 .. (WordMod - 1)
  BY <1>2, <1>3
<1>7. u = z + d /\ d \in -3 .. 3 /\ n - d \in 0 .. (WordMod - 1) /\ n - d # 0
  <2> HIDE DEF z, u
  <2> QED BY <1>2, <1>3, <1>5, <1>6 DEF z, u
<1>8. (a + d) % WordMod = u
  <2>1. (z + d) % WordMod = (a + d) % WordMod
    <3> HIDE DEF d
    <3> QED BY <1>3, <1>7, WrapOnce
  <2>2. u % WordMod = u
    <3> HIDE DEF u
    <3> QED BY <1>2, <1>6
  <2> QED BY <1>7, <2>1, <2>2
<1>9. (a + d) % WordMod = (a + d + (n - d)) % WordMod
  <2> HIDE DEF d
  <2>1. a + d + (n - d) = a + n
    BY <1>3, <1>7
  <2> QED BY <1>8, <2>1
<1> QED
  <2> HIDE DEF d
  <2>1. a + d \in Int
    BY <1>3, <1>7
  <2> QED BY <1>7, <1>9, <2>1, WrapsApart

-----------------------------------------------------------------------------
(* What a store leaves in memory, byte by byte.                            *)
ByteOfWord(v, x) == ByteOf(v, IF BigEndian THEN 3 - x ELSE x)

LEMMA StoredWordIs ==
    ASSUME NEW contents \in Contents, NEW address \in Word, NEW v \in Word, NEW a \in Address
    PROVE  Stored(contents, "word", address, v)[a]
              = IF ~word_refused(address) /\ a \in address .. (address + 3)
                THEN ByteOfWord(v, a - address) ELSE contents[a]
BY DEF Stored, memory_write_word, ByteOfWord

(* A word is read from its four bytes, whatever the others are.            *)
LEMMA SameBytesSameWord ==
    ASSUME NEW c \in Contents, NEW d \in Contents, NEW address \in Nat,
           \A x \in 0 .. 3 : c[address + x] = d[address + x]
    PROVE  memory_read_word(c, address, BigEndian) = memory_read_word(d, address, BigEndian)
<1>1. /\ c[address + 0] = d[address + 0] /\ c[address + 1] = d[address + 1]
      /\ c[address + 2] = d[address + 2] /\ c[address + 3] = d[address + 3]
  BY DEF memory_read_word
<1>2. address + 0 = address
  OBVIOUS
<1> QED BY <1>1, <1>2 DEF memory_read_word

(* The four bytes of v at an address inside the memory are read as v.      *)
LEMMA BytesAreRead ==
    ASSUME NEW c \in Contents, NEW address \in Word, ~word_refused(address), NEW v \in Word,
           \A x \in 0 .. 3 : c[address + x] = ByteOfWord(v, x)
    PROVE  memory_read_word(c, address, BigEndian) = v
<1> DEFINE d == memory_write_word(c, address, v, BigEndian)
<1>1. /\ address \in Nat /\ BigEndian \in BOOLEAN /\ v \in FullWord
      /\ Size \in Nat /\ address + 3 < Size
  BY WordAssumption, LoadStoreAssumption, WordIsFullWord, MemoryAssumption DEF word_refused
<1>2. d \in Contents /\ memory_read_word(d, address, BigEndian) = v
  BY <1>1, AccessesAreTyped, ReadsWhatWasWritten
<1>3. ASSUME NEW x \in 0 .. 3 PROVE c[address + x] = d[address + x]
  <2> DEFINE a == address + x
  <2>1. a \in Address /\ a \in address .. (address + 3) /\ a - address = x
    BY <1>1 DEF Address
  <2>2. c[a] = ByteOfWord(v, x)
    OBVIOUS
  <2> HIDE DEF a
  <2>3. d[a] = ByteOf(v, IF BigEndian THEN 3 - (a - address) ELSE a - address)
    BY <2>1 DEF memory_write_word
  <2> QED BY <2>1, <2>2, <2>3 DEF ByteOfWord, a
<1> HIDE DEF d
<1> QED BY <1>1, <1>2, <1>3, SameBytesSameWord

(* After the loop of an STM: every register of the list whose word is      *)
(* inside the memory is in that word, and no other byte has changed.       *)
LEMMA StoredBlockHolds ==
    ASSUME m \in Contents, NEW q \in RegisterFileType, NEW b \in Blocks
    PROVE  LET start == StartOf(q, b)
               after == StoredBlock(q, start, b)
           IN  /\ after \in Contents
               /\ \A i \in b.list : ~word_refused(AddressOf(start, i, b.list)) =>
                     memory_read_word(after, AddressOf(start, i, b.list), BigEndian)
                        = RegisterToStore(q, b, i)
               /\ \A a \in Address : after[a] # m[a] =>
                     \E i \in b.list : /\ ~word_refused(AddressOf(start, i, b.list))
                                       /\ a \in AddressOf(start, i, b.list) ..
                                                   (AddressOf(start, i, b.list) + 3)
<1> DEFINE start == StartOf(q, b)
           list == b.list
           at(i) == AddressOf(start, i, list)
           v(i) == RegisterToStore(q, b, i)
<1>1. PICK f \in [0 .. 16 -> Contents] :
         /\ f[0] = m /\ f[16] = StoredBlock(q, start, b)
         /\ \A n \in 1 .. 16 :
               f[n] = IF n - 1 \in list THEN Stored(f[n - 1], "word", at(n - 1), v(n - 1))
                      ELSE f[n - 1]
  BY StoredBlockIs
<1>2. list \in SUBSET (0 .. 15) /\ start \in Word
  BY BlockFields, BlockAddressesAreWords
<1>3. \A i \in list : at(i) \in Word /\ v(i) \in Word
  BY BlockAddressesAreWords, RegisterToStoreIsWord
<1>4. \A i, j \in list : i # j => \A x, y \in 0 .. 3 : at(i) + x # at(j) + y
  BY <1>2, WordsApart
<1>5. Size \in Nat /\ Address = 0 .. (Size - 1) /\ Word \subseteq Nat
  BY MemoryAssumption, WordAssumption DEF Address
<1> HIDE DEF start, list, at, v
<1>6. \A i \in list, x \in 0 .. 3 : ~word_refused(at(i)) => at(i) + x \in Address
  <2> SUFFICES ASSUME NEW i \in list, NEW x \in 0 .. 3, ~word_refused(at(i))
               PROVE  at(i) + x \in Address
    OBVIOUS
  <2> DEFINE a == at(i)
  <2>1. a \in Nat /\ ~(a >= Size - 3)
    BY <1>3, <1>5 DEF word_refused
  <2> HIDE DEF a
  <2>2. a + x \in 0 .. (Size - 1)
    BY <1>5, <2>1
  <2> QED BY <1>5, <2>2 DEF a
<1>7. ASSUME NEW n \in 1 .. 16, NEW a \in Address
      PROVE  f[n][a] = IF /\ n - 1 \in list /\ ~word_refused(at(n - 1))
                          /\ a \in at(n - 1) .. (at(n - 1) + 3)
                       THEN ByteOfWord(v(n - 1), a - at(n - 1)) ELSE f[n - 1][a]
  <2>1. f[n - 1] \in Contents
    OBVIOUS
  <2>2. CASE n - 1 \in list
    <3>1. f[n] = Stored(f[n - 1], "word", at(n - 1), v(n - 1))
      BY <1>1, <2>2
    <3> QED BY <1>3, <2>1, <2>2, <3>1, StoredWordIs
  <2>3. CASE n - 1 \notin list
    BY <1>1, <2>3
  <2> QED BY <2>2, <2>3
<1> DEFINE Put(n) == \A i \in list : i < n /\ ~word_refused(at(i)) =>
                        \A x \in 0 .. 3 : f[n][at(i) + x] = ByteOfWord(v(i), x)
           Kept(n) == \A a \in Address : f[n][a] # m[a] =>
                         \E i \in list : ~word_refused(at(i)) /\ a \in at(i) .. (at(i) + 3)
           S == {n \in 0 .. 16 : Put(n) /\ Kept(n)}
<1>8. 0 \in S
  <2>1. \A i \in list : ~(i < 0)
    BY <1>2
  <2> QED BY <1>1, <2>1
<1>9. ASSUME NEW n \in 1 .. 16, n - 1 \in S PROVE n \in S
  <2>1. Put(n - 1) /\ Kept(n - 1)
    BY <1>9
  <2>2. ASSUME NEW i \in list, i < n, ~word_refused(at(i)), NEW x \in 0 .. 3
        PROVE  f[n][at(i) + x] = ByteOfWord(v(i), x)
    <3> DEFINE a == at(i) + x
    <3>1. a \in Address /\ at(i) \in Nat /\ i \in 0 .. 15
      BY <1>2, <1>3, <1>5, <1>6, <2>2
    <3>2. CASE i = n - 1
      <4>1. a \in at(i) .. (at(i) + 3) /\ a - at(i) = x
        BY <3>1
      <4> HIDE DEF a
      <4>2. f[n][a] = ByteOfWord(v(i), a - at(i))
        BY <1>7, <2>2, <3>1, <3>2, <4>1
      <4> QED BY <4>1, <4>2 DEF a
    <3>3. CASE i # n - 1
      <4>1. i < n - 1
        BY <2>2, <3>1, <3>3
      <4>2. f[n - 1][a] = ByteOfWord(v(i), x)
        BY <2>1, <2>2, <4>1
      <4>3. n - 1 \in list => a \notin at(n - 1) .. (at(n - 1) + 3)
        <5> SUFFICES ASSUME n - 1 \in list, a \in at(n - 1) .. (at(n - 1) + 3) PROVE FALSE
          OBVIOUS
        <5> DEFINE k == n - 1
                   y == a - at(k)
        <5> HIDE DEF k
        <5>1. /\ at(k) \in Nat /\ a \in at(k) .. (at(k) + 3) /\ a \in Nat
              /\ k \in list /\ i # k
          <6>1. k \in list /\ i # k /\ a \in at(k) .. (at(k) + 3)
            BY <3>3 DEF k
          <6>2. at(k) \in Nat
            BY <1>3, <1>5, <6>1
          <6> QED BY <3>1, <6>1, <6>2
        <5>2. y \in 0 .. 3 /\ a = at(k) + y
          BY <5>1
        <5> HIDE DEF y
        <5> QED BY <1>4, <5>1, <5>2
      <4> HIDE DEF a
      <4> QED BY <1>7, <3>1, <4>2, <4>3 DEF a
    <3> QED BY <3>2, <3>3
  <2>3. ASSUME NEW a \in Address, f[n][a] # m[a]
        PROVE  \E i \in list : ~word_refused(at(i)) /\ a \in at(i) .. (at(i) + 3)
    <3>1. CASE n - 1 \in list /\ ~word_refused(at(n - 1)) /\ a \in at(n - 1) .. (at(n - 1) + 3)
      BY <3>1
    <3>2. CASE ~(n - 1 \in list /\ ~word_refused(at(n - 1)) /\ a \in at(n - 1) .. (at(n - 1) + 3))
      <4>1. f[n][a] = f[n - 1][a]
        BY <1>7, <3>2
      <4> QED BY <2>1, <2>3, <4>1
    <3> QED BY <3>1, <3>2
  <2> QED BY <2>2, <2>3
<1>10. Put(16) /\ Kept(16)
  <2> HIDE DEF Put, Kept
  <2>1. 16 \in 0 .. 16 /\ 16 \in Nat
    OBVIOUS
  <2> HIDE DEF S
  <2>2. 16 \in S
    BY <1>8, <1>9, <2>1, BoundedInduction
  <2> QED BY <2>2 DEF S
<1> DEFINE after == f[16]
<1>11. after \in Contents /\ after = StoredBlock(q, start, b)
  BY <1>1
<1>12. \A i \in list : i < 16 /\ i \in 0 .. 15
  BY <1>2
<1> HIDE DEF after
<1>13. ASSUME NEW i \in list, ~word_refused(at(i))
       PROVE  memory_read_word(after, at(i), BigEndian) = v(i)
  <2>1. \A x \in 0 .. 3 : after[at(i) + x] = ByteOfWord(v(i), x)
    BY <1>10, <1>12, <1>13 DEF after
  <2> QED BY <1>3, <1>11, <1>13, <2>1, BytesAreRead
<1>14. \A a \in Address : after[a] # m[a] =>
          \E i \in list : ~word_refused(at(i)) /\ a \in at(i) .. (at(i) + 3)
  BY <1>10 DEF after
<1> QED BY <1>11, <1>13, <1>14 DEF start, list, at, v

-----------------------------------------------------------------------------
(* Which registers an instruction disturbs.  A slot holds the register its *)
(* number leaves modulo 16, in every bank.                                 *)
Touches(f, g, regs) == \A s \in Slot : g.genreg[s] # f.genreg[s] => s % 16 \in regs

LEMMA TouchesAll ==
    ASSUME NEW f, NEW g, NEW h, NEW A, NEW B, Touches(f, g, A), Touches(g, h, B)
    PROVE  Touches(f, h, A \cup B)
BY DEF Touches

LEMMA WriteTouches ==
    ASSUME NEW f \in RegisterFileType, NEW reg \in 0 .. 15, NEW value
    PROVE  Touches(f, arm_write_register(f, reg, value), {reg})
<1> DEFINE mode == registers_get_mode(f)
           ind == mode_ind(reg, mode)
<1>1. CASE ind = -1
  BY <1>1 DEF arm_write_register, registers_write, Touches
<1>2. CASE ind # -1
  <2>1. arm_write_register(f, reg, value) = [f EXCEPT !.genreg[ind + reg] = value]
    BY <1>2 DEF arm_write_register, registers_write
  <2>2. ind \in {0, 16, 32, 48, 64, 80}
    BY <1>2, ModeIndexValues
  <2> HIDE DEF ind
  <2>3. (ind + reg) % 16 = reg
    BY <2>2
  <2> QED BY <2>1, <2>3 DEF Touches, RegisterFileType
<1> QED BY <1>1, <1>2

LEMMA LoadListTouches ==
    ASSUME NEW f \in RegisterFileType, NEW list \in SUBSET (0 .. 15), NEW mode, NEW loaded
    PROVE  Touches(f, LoadList(f, list, mode, loaded), list)
<1>1. ASSUME NEW s \in Slot, NEW i \in list, mode_ind(i, mode) # -1, s = mode_ind(i, mode) + i
      PROVE  s % 16 \in list
  <2>1. mode_ind(i, mode) \in {0, 16, 32, 48, 64, 80} /\ i \in 0 .. 15
    BY <1>1, ModeIndexValues
  <2>2. s % 16 = i
    BY <1>1, <2>1
  <2> QED BY <2>2
<1> QED BY <1>1 DEF LoadList, Touches, RegisterFileType

LEMMA RestoreTouches ==
    ASSUME NEW f \in RegisterFileType
    PROVE  Touches(f, RestoreCpsr(f), {})
BY DEF RestoreCpsr, registers_write_cpsr, registers_current_mode_has_spsr, registers_write_spsr,
       RegisterFileType, Touches

(* A register that is not touched reads as before, in every bank.          *)
LEMMA UntouchedReads ==
    ASSUME NEW f, NEW g, NEW A, Touches(f, g, A), NEW i \in 0 .. 15, i \notin A, NEW mode
    PROVE  registers_read(g, i, mode) = registers_read(f, i, mode)
<1> DEFINE ind == mode_ind(i, mode)
<1>1. CASE ind # -1
  <2>1. ind \in {0, 16, 32, 48, 64, 80} /\ ind + i \in Slot
    BY <1>1, ModeIndexValues
  <2>2. registers_read(g, i, mode) = g.genreg[ind + i] /\ registers_read(f, i, mode) = f.genreg[ind + i]
    BY <1>1 DEF registers_read
  <2> HIDE DEF ind
  <2>3. (ind + i) % 16 = i
    BY <2>1
  <2> QED BY <2>1, <2>2, <2>3 DEF Touches
<1>2. CASE ind = -1
  BY <1>2 DEF registers_read
<1> QED BY <1>1, <1>2

(* An instruction ends as its handler does, or in the exception it asks    *)
(* for, and then arm_step does not return success.                         *)
LEMMA ExecuteDone ==
    ASSUME NEW f, Execute(Done(f))
    PROVE  p' = f /\ result' = SUCCESSFULLY_DECODED
BY DEF Execute, Step, arm_step, Done, Outcome

LEMMA ExecuteUndefined ==
    ASSUME NEW f, Execute(Undefined(f))
    PROVE  result' # SUCCESSFULLY_DECODED
<1>1. arm_exception(f, UNDEFINED_INSTRUCTION, "other").result = UNDEFINED_INSTRUCTION
  <2>1. /\ UNDEFINED_INSTRUCTION # SOFTWARE_INTERRUPT /\ UNDEFINED_INSTRUCTION # RESET
        /\ UNDEFINED_INSTRUCTION \in Saving
    BY DEF UNDEFINED_INSTRUCTION, SOFTWARE_INTERRUPT, RESET, Saving
  <2> QED BY <2>1 DEF arm_exception, Outcome
<1>2. UNDEFINED_INSTRUCTION # SUCCESSFULLY_DECODED
  BY DEF UNDEFINED_INSTRUCTION, SUCCESSFULLY_DECODED
<1> QED BY <1>1, <1>2 DEF Execute, Step, arm_step, Undefined, Outcome

LEMMA FetchTouches ==
    ASSUME TypeOK
    PROVE  Touches(p, Fetched, {PC}) /\ Fetched.CPSR = p.CPSR
<1>1. p \in RegisterFileType
  BY DEF TypeOK
<1> QED BY <1>1, PcNumber, WriteTouches, FetchKeepsStatus DEF Fetched, arm_fetch, PC

(* Loads and stores of one register.                                       *)
LEMMA SingleTouches ==
    ASSUME TypeOK, NEW writeback \in BOOLEAN, NEW rn \in 0 .. 15, NEW base \in Word,
           NEW load \in BOOLEAN, NEW rd \in 0 .. 15, NEW v \in Word, NEW implemented \in BOOLEAN,
           LoadStore(writeback, rn, base, load, rd, v, implemented),
           result' = SUCCESSFULLY_DECODED
    PROVE  Touches(p, p', {PC, rn} \cup (IF load THEN {rd} ELSE {}))
<1> DEFINE q == Fetched
           based == IF writeback THEN arm_write_register(q, rn, base) ELSE q
           ended == IF load THEN arm_write_register(based, rd, v) ELSE based
<1>1. q \in RegisterFileType /\ Touches(p, q, {PC})
  BY FetchedType, FetchTouches
<1> HIDE DEF q
<1>2. based \in RegisterFileType /\ Touches(q, based, {rn})
  BY <1>1, ArmWriteType, WriteTouches DEF Touches
<1> HIDE DEF based
<1>3. Touches(based, ended, IF load THEN {rd} ELSE {})
  BY <1>2, WriteTouches DEF Touches
<1>4. implemented /\ p' = ended
  <2>1. Execute(IF ~implemented THEN Undefined(based) ELSE Done(ended))
    BY DEF LoadStore, arm_load_store, based, q
  <2> HIDE DEF ended
  <2>2. implemented
    BY <2>1, ExecuteUndefined
  <2> QED BY <2>1, <2>2, ExecuteDone
<1> HIDE DEF ended
<1>5. Touches(p, p', ({PC} \cup {rn}) \cup (IF load THEN {rd} ELSE {}))
  BY <1>1, <1>2, <1>3, <1>4, TouchesAll
<1>6. {PC} \cup {rn} = {PC, rn}
  OBVIOUS
<1> QED BY <1>5, <1>6

(* Block transfers: the registers of the list in the bank the loop loads,  *)
(* then the PC and the base.                                               *)
Finished(t, b, base) == IF b.W THEN arm_write_register(t, b.rn, base) ELSE t
BaseOf(b)            == IF b.W THEN {b.rn} ELSE {}

LEMMA FinishTouches ==
    ASSUME NEW t \in RegisterFileType, NEW b \in Blocks, NEW base \in Word
    PROVE  /\ Touches(t, Finished(t, b, base), BaseOf(b))
           /\ Finished(t, b, base) \in RegisterFileType
<1>1. b.rn \in 0 .. 15
  BY BlockFields
<1> QED BY <1>1, WriteTouches, ArmWriteType DEF Finished, BaseOf, Touches

LEMMA RefusedBlockFails ==
    ASSUME NEW b \in Blocks, NEW load, NEW base, NEW loaded, BlockRefused(Fetched, b),
           BlockTransfer(load, b.S, b.W, b.list, b.rn, base, loaded)
    PROVE  result' # SUCCESSFULLY_DECODED
<1>1. Execute(Undefined(Fetched))
  BY DEF BlockTransfer, arm_load_store_multiple, BlockRefused
<1> QED BY <1>1, ExecuteUndefined

LEMMA StoringBlockTouches ==
    ASSUME TypeOK, NEW b \in Blocks, NEW base \in Word, NEW loaded, ~BlockRefused(Fetched, b),
           BlockTransfer(FALSE, b.S, b.W, b.list, b.rn, base, loaded)
    PROVE  Touches(p, p', {PC} \cup BaseOf(b))
<1>1. Execute(Done(Finished(Fetched, b, base)))
  BY DEF BlockTransfer, arm_load_store_multiple, BlockRefused, Finished
<1>2. p' = Finished(Fetched, b, base)
  BY <1>1, ExecuteDone
<1>3. Fetched \in RegisterFileType /\ Touches(p, Fetched, {PC})
  BY FetchedType, FetchTouches
<1> QED BY <1>2, <1>3, FinishTouches, TouchesAll

LoadedBank(b) == IF b.S /\ PC \notin b.list THEN USR ELSE registers_get_mode(p)

LEMMA LoadingBlockTouches ==
    ASSUME TypeOK, NEW b \in Blocks, NEW base \in Word, NEW loaded \in [b.list -> Word],
           ~BlockRefused(Fetched, b),
           BlockTransfer(TRUE, b.S, b.W, b.list, b.rn, base, loaded),
           result' = SUCCESSFULLY_DECODED \/ registers_get_mode(p) \in Modes \/ ~b.S
    PROVE  Touches(LoadList(Fetched, b.list \ {PC}, LoadedBank(b), loaded), p', {PC} \cup BaseOf(b))
<1> DEFINE q == Fetched
           mode == registers_get_mode(q)
           current == LoadList(q, b.list \ {PC}, LoadedBank(b), loaded)
<1>1. q \in RegisterFileType /\ mode = registers_get_mode(p)
  BY FetchedType, FetchTouches DEF registers_get_mode
<1>2. /\ Execute(arm_load_store_multiple(q, TRUE, b.S, b.W, b.list, b.rn, base, loaded))
      /\ ~(b.list = {} \/ (b.S /\ mode \in {USR, SYS}))
  BY DEF BlockTransfer, BlockRefused
<1>3. current \in RegisterFileType
  <2>1. b.list \in SUBSET (0 .. 15)
    BY BlockFields
  <2>2. \A list \in SUBSET (0 .. 15) : loaded \in [list -> Word] =>
           LoadList(q, list \ {PC}, LoadedBank(b), loaded) \in RegisterFileType
    BY <1>1, LoadListType
  <2> QED BY <2>1, <2>2
<1>4. PC \notin b.list => b.list \ {PC} = b.list
  OBVIOUS
<1> HIDE DEF q, mode, current
<1>5. CASE b.S /\ PC \notin b.list
  <2>1. current = LoadList(q, b.list, USR, loaded)
    BY <1>4, <1>5 DEF current, LoadedBank
  <2>2. Execute(Done(Finished(current, b, base)))
    BY <1>2, <1>5, <2>1 DEF arm_load_store_multiple, mode, Finished
  <2>3. p' = Finished(current, b, base)
    BY <2>2, ExecuteDone
  <2>4. Touches(current, p', BaseOf(b))
    BY <1>3, <2>3, FinishTouches
  <2> QED BY <2>4 DEF Touches, current, q
<1>6. CASE ~(b.S /\ PC \notin b.list)
  <2>1. current = LoadList(q, b.list \ {PC}, mode, loaded)
    BY <1>1, <1>6 DEF current, LoadedBank
  <2>2. PC \in b.list => loaded[PC] \in Word /\ WordAligned(loaded[PC]) \in Word
    BY AlignedIsWord
  <2>3. CASE b.S /\ PC \in b.list
    <3> DEFINE restored == RestoreCpsr(current)
               jumped == arm_write_register(restored, PC, loaded[PC])
    <3>1. Execute(IF HasSpsr(current) THEN Done(Finished(jumped, b, base)) ELSE Undefined(current))
      BY <1>2, <2>1, <2>3 DEF arm_load_store_multiple, mode, Finished
    <3>2. restored \in RegisterFileType /\ Touches(current, restored, {})
      BY <1>3, RestoreType, RestoreTouches
    <3> HIDE DEF restored
    <3>3. jumped \in RegisterFileType /\ Touches(restored, jumped, {PC})
      BY <2>2, <2>3, <3>2, PcNumber, ArmWriteType, WriteTouches
    <3> HIDE DEF jumped
    <3>4. HasSpsr(current)
      <4>1. registers_get_mode(current) = mode
        BY <1>1, LoadListKeepsStatus DEF current, mode, registers_get_mode
      <4>2. mode \in Modes => mode \in ExceptionModes
        BY <1>2, <2>3 DEF Modes, PrivilegedModes
      <4> QED BY <1>1, <2>3, <3>1, <4>1, <4>2, ExecuteUndefined DEF HasSpsr
    <3>5. p' = Finished(jumped, b, base)
      BY <3>1, <3>4, ExecuteDone
    <3>6. Touches(jumped, p', BaseOf(b))
      BY <3>3, <3>5, FinishTouches
    <3> QED BY <3>2, <3>3, <3>6 DEF Touches, current, q
  <2>4. CASE ~b.S /\ PC \in b.list
    <3> DEFINE jumped == arm_write_register(current, PC, WordAligned(loaded[PC]))
    <3>1. Execute(Done(Finished(jumped, b, base)))
      BY <1>2, <2>1, <2>4 DEF arm_load_store_multiple, mode, Finished
    <3>2. jumped \in RegisterFileType /\ Touches(current, jumped, {PC})
      BY <1>3, <2>2, <2>4, PcNumber, ArmWriteType, WriteTouches
    <3> HIDE DEF jumped
    <3>3. p' = Finished(jumped, b, base)
      BY <3>1, ExecuteDone
    <3>4. Touches(jumped, p', BaseOf(b))
      BY <3>2, <3>3, FinishTouches
    <3> QED BY <3>2, <3>4 DEF Touches, current, q
  <2>5. CASE ~b.S /\ PC \notin b.list
    <3>1. Execute(Done(Finished(current, b, base)))
      BY <1>2, <2>1, <2>5 DEF arm_load_store_multiple, mode, Finished
    <3>2. p' = Finished(current, b, base)
      BY <3>1, ExecuteDone
    <3>3. Touches(current, p', BaseOf(b))
      BY <1>3, <3>2, FinishTouches
    <3> QED BY <3>3 DEF Touches, current, q
  <2> QED BY <1>6, <2>3, <2>4, <2>5
<1> QED BY <1>5, <1>6

-----------------------------------------------------------------------------
(* What an instruction that is executed leaves alone.                      *)
LEMMA SomethingIsReached ==
    ASSUME NEW t \in Transfers \cup Blocks
    PROVE  Footprints(Fetched, t) # {}
<1>1. CASE t.class = "block"
  BY <1>1 DEF Footprints
<1>2. CASE t.class # "block"
  <2>1. Reached(Fetched, t) # {}
    BY LoadStoreAssumption DEF Reached
  <2>2. Footprints(Fetched, t)
           = {Inside(address, SizeInBytes(t.size)) : address \in Reached(Fetched, t)}
    BY <1>2 DEF Footprints
  <2> QED BY <2>1, <2>2
<1> QED BY <1>1, <1>2

(* A single store changes the bytes it addresses, or none.                 *)
LEMMA StoredInside ==
    ASSUME m \in Contents, NEW size \in {"byte", "half", "word"}, NEW address \in Word, NEW v,
           NEW a \in Address, Stored(m, size, address, v)[a] # m[a]
    PROVE  a \in Inside(address, SizeInBytes(size))
<1>1. address \in Nat /\ Size \in Nat /\ a \in Nat
  BY WordAssumption, MemoryAssumption DEF Address
<1>2. CASE size = "byte"
  BY <1>1, <1>2 DEF Stored, byte_refused, memory_write_byte, Inside, SizeInBytes, Contents
<1>3. CASE size = "half"
  BY <1>1, <1>3 DEF Stored, half_refused, memory_write_half, Inside, SizeInBytes, Contents
<1>4. CASE size = "word"
  BY <1>1, <1>4 DEF Stored, word_refused, memory_write_word, Inside, SizeInBytes, Contents
<1> QED BY <1>2, <1>3, <1>4

LEMMA UnimplementedFails ==
    ASSUME NEW writeback, NEW rn, NEW base, NEW load, NEW rd, NEW v,
           LoadStore(writeback, rn, base, load, rd, v, FALSE)
    PROVE  result' # SUCCESSFULLY_DECODED
<1>1. PICK q : Execute(Undefined(q))
  BY DEF LoadStore, arm_load_store
<1> QED BY <1>1, ExecuteUndefined

Contained(t) ==
    /\ \E footprint \in Footprints(Fetched, t) :
          \A a \in Address : m'[a] # m[a] => ~t.load /\ a \in footprint
    /\ Touches(p, p', MayWrite(t))

LEMMA SingleContained ==
    ASSUME MachineTypeOK, NEW t \in Transfers, Single(t), result' = SUCCESSFULLY_DECODED
    PROVE  Contained(t)
<1>1. TypeOK /\ m \in Contents /\ Fetched \in RegisterFileType
  BY FetchedType DEF MachineTypeOK
<1>2. /\ t.rn \in 0 .. 15 /\ t.rd \in 0 .. 15 /\ t.load \in BOOLEAN /\ 0 \in Word
      /\ WritesBack(t) \in BOOLEAN /\ t.class # "block"
      /\ t.size # "other" => t.size \in {"byte", "half", "word"}
  BY TransferFields, ZeroIsWord DEF WritesBack
<1>3. /\ Indexed(Fetched, t) \in Word
      /\ \A address \in Reached(Fetched, t) : address \in Word
  BY <1>1, ReachedAreWords
<1> DEFINE touched == {PC, t.rn} \cup (IF t.load THEN {t.rd} ELSE {})
<1>4. MayWrite(t) = touched
  BY <1>2 DEF MayWrite
<1>5. UNCHANGED m => \E footprint \in Footprints(Fetched, t) :
                        \A a \in Address : m'[a] # m[a] => ~t.load /\ a \in footprint
  BY SomethingIsReached
<1>6. ~RefuseTransfer(t) /\ ~OtherTransfer(t)
  BY UnimplementedFails DEF RefuseTransfer, OtherTransfer
<1>8. CASE Load(t)
  <2>1. PICK address \in Reached(Fetched, t) : \E v \in Loaded(t.size, address) :
           LoadStore(WritesBack(t), t.rn, Indexed(Fetched, t), TRUE, t.rd, v, TRUE)
    BY <1>8 DEF Load
  <2> PICK v \in Loaded(t.size, address) :
           LoadStore(WritesBack(t), t.rn, Indexed(Fetched, t), TRUE, t.rd, v, TRUE)
    BY <2>1
  <2>2. v \in Word /\ t.load = TRUE
    BY <1>1, <1>2, <1>3, <1>8, LoadedAreWords DEF Load
  <2>3. Touches(p, p', MayWrite(t))
    <3>1. Touches(p, p', {PC, t.rn} \cup (IF TRUE THEN {t.rd} ELSE {}))
      BY <1>1, <1>2, <1>3, <2>2, SingleTouches
    <3>2. touched = {PC, t.rn} \cup (IF TRUE THEN {t.rd} ELSE {})
      BY <2>2
    <3> HIDE DEF touched
    <3> QED BY <1>4, <3>1, <3>2
  <2> QED BY <1>5, <1>8, <2>3 DEF Load, Contained
<1>9. CASE Store(t)
  <2>1. Touches(p, p', MayWrite(t))
    <3>1. Touches(p, p', touched)
      BY <1>1, <1>2, <1>3, <1>9, SingleTouches DEF Store
    <3> HIDE DEF touched
    <3> QED BY <1>4, <3>1
  <2>2. PICK address \in Reached(Fetched, t) :
           m' = Stored(m, t.size, address, StoredRegister(Fetched, t))
    BY <1>9 DEF Store
  <2>3. t.size \in {"byte", "half", "word"} /\ ~t.load /\ address \in Word
    BY <1>2, <1>3, <1>9 DEF Store
  <2> DEFINE footprint == Inside(address, SizeInBytes(t.size))
  <2>4. \A a \in Address : m'[a] # m[a] => ~t.load /\ a \in footprint
    BY <1>1, <2>2, <2>3, StoredInside
  <2>5. footprint \in Footprints(Fetched, t)
    BY <1>2 DEF Footprints
  <2> HIDE DEF footprint
  <2> QED BY <2>1, <2>4, <2>5 DEF Contained
<1> QED BY <1>6, <1>8, <1>9 DEF Single

LEMMA BlockContained ==
    ASSUME MachineTypeOK, NEW b \in Blocks, Block(b), result' = SUCCESSFULLY_DECODED
    PROVE  Contained(b)
<1>1. TypeOK /\ m \in Contents /\ Fetched \in RegisterFileType
  BY FetchedType DEF MachineTypeOK
<1>2. /\ b.load \in BOOLEAN /\ b.list \in SUBSET (0 .. 15) /\ b.rn \in 0 .. 15
      /\ b.class = "block" /\ AfterLast(StartOf(Fetched, b), b.list) \in Word
  BY <1>1, BlockFields, BlockAddressesAreWords
<1>3. MayWrite(b) = {PC, b.rn} \cup (IF b.load THEN b.list ELSE {})
  BY <1>2 DEF MayWrite
<1>4. UNCHANGED m => \E footprint \in Footprints(Fetched, b) :
                        \A a \in Address : m'[a] # m[a] => ~b.load /\ a \in footprint
  BY SomethingIsReached
<1>5. ~RefuseBlock(b)
  BY RefusedBlockFails DEF RefuseBlock
<1>6. CASE LoadBlock(b)
  <2>1. PICK loaded \in WordsLoaded(StartOf(Fetched, b), b) :
           BlockTransfer(TRUE, b.S, b.W, b.list, b.rn,
                         AfterLast(StartOf(Fetched, b), b.list), loaded)
    BY <1>6 DEF LoadBlock
  <2>2. loaded \in [b.list -> Word] /\ ~BlockRefused(Fetched, b) /\ b.load
    BY <1>1, <1>6, WordsLoadedAre DEF LoadBlock
  <2> DEFINE current == LoadList(Fetched, b.list \ {PC}, LoadedBank(b), loaded)
  <2>3. Touches(current, p', {PC} \cup BaseOf(b))
    BY <1>1, <1>2, <2>1, <2>2, LoadingBlockTouches
  <2>4. Touches(Fetched, current, b.list \ {PC})
    <3>1. b.list \ {PC} \in SUBSET (0 .. 15)
      BY <1>2
    <3> QED BY <1>1, <3>1, LoadListTouches
  <2>5. Touches(p, Fetched, {PC})
    BY <1>1, FetchTouches
  <2> HIDE DEF current
  <2>6. Touches(p, p', MayWrite(b))
    BY <1>3, <2>2, <2>3, <2>4, <2>5 DEF Touches, BaseOf
  <2> QED BY <1>4, <1>6, <2>6 DEF LoadBlock, Contained
<1>7. CASE StoreBlock(b)
  <2>1. ~BlockRefused(Fetched, b) /\ ~b.load /\ m' = StoredBlock(Fetched, StartOf(Fetched, b), b)
    BY <1>7 DEF StoreBlock
  <2>2. Touches(p, p', {PC} \cup BaseOf(b))
    BY <1>1, <1>2, <1>7, <2>1, StoringBlockTouches DEF StoreBlock
  <2>3. Touches(p, p', MayWrite(b))
    BY <1>3, <2>2 DEF Touches, BaseOf
  <2> DEFINE place(i) == PlaceOf(arm_read_register(Fetched, b.rn), b, i)
             footprint == UNION {Inside(place(i), 4) : i \in b.list}
  <2>4. ASSUME NEW a \in Address, m'[a] # m[a] PROVE a \in footprint
    <3>1. PICK i \in b.list : /\ ~word_refused(AddressOf(StartOf(Fetched, b), i, b.list))
                              /\ a \in AddressOf(StartOf(Fetched, b), i, b.list) ..
                                          (AddressOf(StartOf(Fetched, b), i, b.list) + 3)
      BY <1>1, <2>1, <2>4, StoredBlockHolds
    <3>2. place(i) = AddressOf(StartOf(Fetched, b), i, b.list) /\ place(i) \in Word
      BY <1>1, PlaceIsAddress, BlockAddressesAreWords
    <3>3. ~word_refused(place(i)) /\ a \in place(i) .. (place(i) + 3)
      BY <3>1, <3>2
    <3> HIDE DEF place
    <3>4. place(i) \in Nat /\ Size \in Nat
      BY <3>2, WordAssumption, MemoryAssumption
    <3>5. a \in Inside(place(i), 4)
      BY <3>3, <3>4 DEF word_refused, Inside
    <3> QED BY <3>5
  <2>5. footprint \in Footprints(Fetched, b)
    BY <1>2 DEF Footprints
  <2> HIDE DEF footprint
  <2> QED BY <2>1, <2>3, <2>4, <2>5 DEF Contained
<1> QED BY <1>5, <1>6, <1>7 DEF Block

(* An access past the end of the memory is given up whole: an instruction  *)
(* that is executed changes no byte outside the words it addresses and     *)
(* inside the memory, and no register but the PC, its base and those it    *)
(* loads, in any bank (src/arm_load_store.c lines 192-231 and 291-373).    *)
THEOREM RefusedAccessesAreContained == ProgramSpec => OutsideIsContained
<1> DEFINE Kept == \A t \in {ins'} \ {NoInstruction} : result' = SUCCESSFULLY_DECODED =>
          /\ \E footprint \in Footprints(Fetched, t) :
                \A a \in Address : m'[a] # m[a] => ~t.load /\ a \in footprint
          /\ \A s \in Slot : p'.genreg[s] # p.genreg[s] =>
                s % 16 \in MayWrite(t)
<1>1. MachineTypeOK /\ [ProgramNext]_program => [Kept]_program
  <2> SUFFICES ASSUME MachineTypeOK, ProgramNext, result' = SUCCESSFULLY_DECODED PROVE Kept
    OBVIOUS
  <2>1. \E t \in Transfers \cup Blocks : ins' = t /\ Contained(t)
    <3>1. ASSUME NEW t \in Transfers, Single(t) PROVE ins' = t /\ Contained(t)
      BY <3>1, SingleContained DEF Single
    <3>2. ASSUME NEW b \in Blocks, Block(b) PROVE ins' = b /\ Contained(b)
      BY <3>2, BlockContained DEF Block
    <3> QED BY <3>1, <3>2 DEF ProgramNext
  <2> QED BY <2>1 DEF Contained, Touches
<1> QED BY <1>1, ProgramIsTyped, PTL DEF ProgramSpec, OutsideIsContained

-----------------------------------------------------------------------------
(* Every register meets its own word.                                      *)
LEMMA LoadedRegisterReads ==
    ASSUME NEW f \in RegisterFileType, NEW list \in SUBSET (0 .. 15), NEW mode, NEW loaded,
           NEW i \in list, mode_ind(i, mode) # -1
    PROVE  registers_read(LoadList(f, list, mode, loaded), i, mode) = loaded[i]
<1> DEFINE s == mode_ind(i, mode) + i
           g == LoadList(f, list, mode, loaded)
<1>1. i \in 0 .. 15 /\ s \in Slot
  BY ModeIndexValues
<1>2. s % 16 = i
  <2> DEFINE ind == mode_ind(i, mode)
  <2>1. ind \in {0, 16, 32, 48, 64, 80}
    BY <1>1, ModeIndexValues
  <2> HIDE DEF ind
  <2>2. (ind + i) % 16 = i
    BY <1>1, <2>1
  <2> QED BY <2>2 DEF ind
<1>3. \E k \in list : mode_ind(k, mode) # -1 /\ s = mode_ind(k, mode) + k
  OBVIOUS
<1>4. registers_read(g, i, mode) = g.genreg[s]
  BY DEF registers_read
<1>5. g.genreg = [z \in Slot |-> IF \E k \in list : mode_ind(k, mode) # -1 /\ z = mode_ind(k, mode) + k
                                 THEN loaded[z % 16] ELSE f.genreg[z]]
  BY DEF LoadList, RegisterFileType
<1> HIDE DEF s, g
<1> QED BY <1>1, <1>2, <1>3, <1>4, <1>5 DEF g

LEMMA LoadedBlockOrdered ==
    ASSUME MachineTypeOK, NEW b \in Blocks, LoadBlock(b),
           NEW i \in b.list, i \notin {PC} \cup BaseOf(b),
           \/ registers_get_mode(p) \in Modes
           \/ ~b.S /\ mode_ind(i, registers_get_mode(p)) # -1,
           ~word_refused(AddressOf(StartOf(Fetched, b), i, b.list))
    PROVE  registers_read(p', i, LoadedBank(b))
              = memory_read_word(m, AddressOf(StartOf(Fetched, b), i, b.list), BigEndian)
<1>1. TypeOK /\ m \in Contents /\ Fetched \in RegisterFileType
  BY FetchedType DEF MachineTypeOK
<1>2. /\ b.list \in SUBSET (0 .. 15) /\ i \in 0 .. 15 /\ b.list \ {PC} \in SUBSET (0 .. 15)
      /\ AfterLast(StartOf(Fetched, b), b.list) \in Word
  BY <1>1, BlockFields, BlockAddressesAreWords
<1>3. PICK loaded \in WordsLoaded(StartOf(Fetched, b), b) :
         BlockTransfer(TRUE, b.S, b.W, b.list, b.rn, AfterLast(StartOf(Fetched, b), b.list), loaded)
  BY DEF LoadBlock
<1>4. /\ loaded \in [b.list -> Word] /\ ~BlockRefused(Fetched, b)
      /\ loaded[i] = memory_read_word(m, AddressOf(StartOf(Fetched, b), i, b.list), BigEndian)
  BY <1>1, WordsLoadedAre DEF LoadBlock
<1> DEFINE current == LoadList(Fetched, b.list \ {PC}, LoadedBank(b), loaded)
<1>5. Touches(current, p', {PC} \cup BaseOf(b))
  BY <1>1, <1>2, <1>3, <1>4, LoadingBlockTouches
<1>6. registers_read(p', i, LoadedBank(b)) = registers_read(current, i, LoadedBank(b))
  <2> HIDE DEF current
  <2> QED BY <1>2, <1>5, UntouchedReads
<1>7. mode_ind(i, LoadedBank(b)) # -1
  <2>1. LoadedBank(b) \in Modes \/ mode_ind(i, LoadedBank(b)) # -1
    BY DEF LoadedBank, Modes
  <2> QED BY <1>2, <2>1, SlotsApart
<1>8. registers_read(current, i, LoadedBank(b)) = loaded[i]
  BY <1>1, <1>2, <1>7, LoadedRegisterReads
<1> QED BY <1>4, <1>6, <1>8

LEMMA BlockMeetsItsWords ==
    ASSUME MachineTypeOK, NEW b \in Blocks, Block(b), registers_get_mode(p) \in Modes,
           Transferring(b), NEW i \in b.list
    PROVE  LET base  == arm_read_register(Fetched, b.rn)
               place == PlaceOf(base, b, i)
               bank  == IF b.S /\ (~b.load \/ PC \notin b.list) THEN USR ELSE registers_get_mode(p)
           IN  ~word_refused(place) =>
               IF b.load
               THEN i \in {PC} \cup (IF b.W THEN {b.rn} ELSE {}) \/
                    registers_read(p', i, bank) = memory_read_word(m, place, BigEndian)
               ELSE memory_read_word(m', place, BigEndian)
                       = arm_read_register_internal(Fetched, i, bank)
<1> DEFINE place == PlaceOf(arm_read_register(Fetched, b.rn), b, i)
           bank  == IF b.S /\ (~b.load \/ PC \notin b.list) THEN USR ELSE registers_get_mode(p)
<1>1. TypeOK /\ m \in Contents /\ Fetched \in RegisterFileType
  BY FetchedType DEF MachineTypeOK
<1>2. place = AddressOf(StartOf(Fetched, b), i, b.list)
  BY <1>1, PlaceIsAddress
<1>3. LoadBlock(b) \/ StoreBlock(b)
  BY DEF Block, RefuseBlock, Transferring
<1>4. registers_get_mode(Fetched) = registers_get_mode(p)
  BY <1>1, FetchTouches DEF registers_get_mode
<1> SUFFICES ASSUME ~word_refused(place)
             PROVE  IF b.load
                    THEN i \in {PC} \cup BaseOf(b) \/
                         registers_read(p', i, bank) = memory_read_word(m, place, BigEndian)
                    ELSE memory_read_word(m', place, BigEndian)
                            = arm_read_register_internal(Fetched, i, bank)
  BY DEF BaseOf
<1> HIDE DEF place
<1>5. CASE LoadBlock(b)
  <2>1. b.load /\ bank = LoadedBank(b)
    BY <1>5 DEF LoadBlock, LoadedBank
  <2> HIDE DEF bank
  <2> QED BY <1>2, <1>5, <2>1, LoadedBlockOrdered
<1>6. CASE StoreBlock(b)
  <2>1. ~b.load /\ m' = StoredBlock(Fetched, StartOf(Fetched, b), b)
    BY <1>6 DEF StoreBlock
  <2>2. memory_read_word(m', place, BigEndian) = RegisterToStore(Fetched, b, i)
    BY <1>1, <1>2, <2>1, StoredBlockHolds
  <2>3. RegisterToStore(Fetched, b, i) = arm_read_register_internal(Fetched, i, bank)
    BY <1>4, <2>1 DEF RegisterToStore, arm_read_register
  <2> QED BY <2>1, <2>2, <2>3
<1> QED BY <1>3, <1>5, <1>6

(* In every addressing mode and for every list, register i of an STM is in *)
(* the word at its place when the instruction ends, and register i of an   *)
(* LDM is that word: the four start addresses agree with the order of the  *)
(* loops, wherever the block lies (src/arm_load_store.c lines 266-373).    *)
THEOREM BlocksAreOrdered == ProgramSpec => BlockIsOrdered
<1> DEFINE Ordered ==
       \A b \in {ins'} : registers_get_mode(p) \in Modes /\ Transferring(b) =>
          \A i \in b.list :
             LET base  == arm_read_register(Fetched, b.rn)
                 place == PlaceOf(base, b, i)
                 bank  == IF b.S /\ (~b.load \/ PC \notin b.list) THEN USR ELSE registers_get_mode(p)
             IN  ~word_refused(place) =>
                 IF b.load
                 THEN i \in {PC} \cup (IF b.W THEN {b.rn} ELSE {}) \/
                      registers_read(p', i, bank) = memory_read_word(m, place, BigEndian)
                 ELSE memory_read_word(m', place, BigEndian)
                         = arm_read_register_internal(Fetched, i, bank)
<1>1. MachineTypeOK /\ [ProgramNext]_program => [Ordered]_program
  <2> SUFFICES ASSUME MachineTypeOK, ProgramNext, registers_get_mode(p) \in Modes,
                      Transferring(ins')
               PROVE  Ordered
    OBVIOUS
  <2>1. PICK b \in Blocks : Block(b)
    <3>1. ASSUME NEW t \in Transfers, Single(t) PROVE FALSE
      BY <3>1, TransferFields DEF Single, Transferring
    <3> QED BY <3>1 DEF ProgramNext
  <2>2. ins' = b /\ Transferring(b)
    BY <2>1 DEF Block
  <2> QED BY <2>1, <2>2, BlockMeetsItsWords
<1> QED BY <1>1, ProgramIsTyped, PTL DEF ProgramSpec, BlockIsOrdered


-----------------------------------------------------------------------------
(* What was stored is loaded back.  After a store, its registers and the   *)
(* memory agree: that is invariant, because no other instruction comes     *)
(* between, and it is all the load that follows needs.                     *)
ReadFrom(c, size, address) ==
    CASE size = "byte" -> memory_read_byte(c, address)
      [] size = "half" -> memory_read_half(c, address, BigEndian)
      [] size = "word" -> memory_read_word(c, address, BigEndian)

FitsAt(address, size) == address + SizeInBytes(size) <= Size

BlockHeld(q, c, b) ==
    \A i \in b.list \ {PC} : ~word_refused(AddressOf(StartOf(q, b), i, b.list)) =>
       memory_read_word(c, AddressOf(StartOf(q, b), i, b.list), BigEndian) = arm_read_register(q, i)

TransferHeld(q, c, t) ==
    /\ t.size # "other"
    /\ FitsAt(Indexed(q, t), t.size) =>
          ReadFrom(c, t.size, Indexed(q, t)) = arm_read_register(q, t.rd) % SizeMod(t.size)

(* q, c, r and t are the registers, the memory, the result and the         *)
(* instruction of a state.                                                 *)
HeldIn(q, c, r, t) ==
    r = SUCCESSFULLY_DECODED /\ ~t.load =>
       /\ t \in Blocks /\ ~t.W /\ ~t.S => BlockHeld(q, c, t)
       /\ t \in Transfers /\ t.P /\ ~t.W => TransferHeld(q, c, t)

StoreIsHeld == /\ MachineTypeOK
               /\ ins \in Transfers \cup Blocks \cup {NoInstruction}
               /\ ins # NoInstruction => HeldIn(p, m, result, ins)

LEMMA FitsIsAccepted ==
    ASSUME NEW address \in Word, NEW size \in {"byte", "half", "word"}
    PROVE  /\ Inside(address, SizeInBytes(size)) # {} => FitsAt(address, size)
           /\ FitsAt(address, size) => Loaded(size, address) = {ReadFrom(m, size, address)}
<1>1. address \in Nat /\ Size \in Nat
  BY WordAssumption, MemoryAssumption
<1>2. Inside(address, SizeInBytes(size)) # {} => FitsAt(address, size)
  BY DEF Inside, FitsAt
<1>3. CASE size = "byte"
  BY <1>1, <1>2, <1>3 DEF FitsAt, SizeInBytes, Loaded, ReadFrom, byte_refused
<1>4. CASE size = "half"
  BY <1>1, <1>2, <1>4 DEF FitsAt, SizeInBytes, Loaded, ReadFrom, half_refused
<1>5. CASE size = "word"
  BY <1>1, <1>2, <1>5 DEF FitsAt, SizeInBytes, Loaded, ReadFrom, word_refused
<1> QED BY <1>3, <1>4, <1>5

(* The two bytes of a half word make it up.                                *)
LEMMA HalfWordIsTwoBytes ==
    ASSUME NEW h \in HalfWord
    PROVE  ByteOf(h, 1) * ByteMod + ByteOf(h, 0) = h
<1> DEFINE high == h \div ByteMod
           low == h % ByteMod
<1>1. h \in Nat /\ h < ByteMod * ByteMod /\ ByteMod \in Nat /\ ByteMod > 1
  BY Powers DEF HalfWord
<1>2. high \in Nat /\ low \in 0 .. (ByteMod - 1) /\ high * ByteMod + low = h
  <2>1. high \in Int /\ low \in 0 .. (ByteMod - 1) /\ h = ByteMod * high + low
    BY <1>1
  <2> HIDE DEF high, low
  <2>2. high >= 0
    <3> SUFFICES ASSUME high <= -1 PROVE FALSE
      BY <2>1
    <3>1. ByteMod * high <= -ByteMod
      BY <1>1, <2>1
    <3> QED BY <1>1, <2>1, <3>1
  <2> QED BY <1>1, <2>1, <2>2
<1> HIDE DEF high, low
<1>3. high < ByteMod
  <2> SUFFICES ASSUME high >= ByteMod PROVE FALSE
    BY <1>1, <1>2
  <2>1. high * ByteMod >= ByteMod * ByteMod
    BY <1>1, <1>2
  <2> QED BY <1>1, <1>2, <2>1
<1>4. high % ByteMod = high
  BY <1>1, <1>2, <1>3
<1>5. ByteOf(h, 1) = high % ByteMod /\ ByteOf(h, 0) = low
  BY DEF ByteOf, high, low
<1> QED BY <1>2, <1>4, <1>5

(* A value that is stored where it fits is read back, cut to its width.    *)
LEMMA StoredIsRead ==
    ASSUME NEW c \in Contents, NEW address \in Word, NEW size \in {"byte", "half", "word"},
           NEW v \in Word, FitsAt(address, size)
    PROVE  ReadFrom(Stored(c, size, address, v), size, address) = v % SizeMod(size)
<1>1. /\ address \in Nat /\ Size \in Nat /\ ByteMod \in Nat /\ ByteMod > 1 /\ v \in Nat
      /\ BigEndian \in BOOLEAN /\ v \in FullWord
  BY WordAssumption, MemoryAssumption, LoadStoreAssumption, WordIsFullWord
<1>2. CASE size = "byte"
  <2>1. ~byte_refused(address) /\ address \in Address
    BY <1>1, <1>2 DEF FitsAt, SizeInBytes, byte_refused, Address
  <2> QED BY <1>2, <2>1 DEF Stored, ReadFrom, SizeMod, memory_write_byte, memory_read_byte, Contents
<1>3. CASE size = "half"
  <2>1. ~half_refused(address) /\ address \in Address /\ address + 1 \in Address
    BY <1>1, <1>3 DEF FitsAt, SizeInBytes, half_refused, Address
  <2> DEFINE h == v % (ByteMod * ByteMod)
             d == memory_write_half(c, address, h, BigEndian)
  <2>2. h \in HalfWord
    BY <1>1, Powers, Residue DEF HalfWord
  <2>3. ByteOf(h, 1) * ByteMod + ByteOf(h, 0) = h
    BY <2>2, HalfWordIsTwoBytes
  <2>4. Stored(c, size, address, v) = d
    BY <1>3, <2>1 DEF Stored
  <2> HIDE DEF h
  <2>5. /\ d[address] = ByteOf(h, IF BigEndian THEN 1 ELSE 0)
        /\ d[address + 1] = ByteOf(h, IF BigEndian THEN 0 ELSE 1)
    BY <1>1, <2>1 DEF memory_write_half
  <2> HIDE DEF d
  <2>6. memory_read_half(d, address, BigEndian) = h
    BY <1>1, <2>3, <2>5 DEF memory_read_half, TwoBytes
  <2> QED BY <1>3, <2>4, <2>6 DEF ReadFrom, SizeMod, h
<1>4. CASE size = "word"
  <2>1. ~word_refused(address)
    BY <1>1, <1>4 DEF FitsAt, SizeInBytes, word_refused
  <2>2. memory_read_word(memory_write_word(c, address, v, BigEndian), address, BigEndian) = v
    BY <1>1, <2>1, ReadsWhatWasWritten
  <2>3. v % WordMod = v
    BY WordWraps
  <2> QED BY <1>4, <2>1, <2>2, <2>3 DEF Stored, ReadFrom, SizeMod
<1> QED BY <1>2, <1>3, <1>4


(* The fetch moves the PC only: everything else reads as before.           *)
LEMMA FetchedReads ==
    ASSUME TypeOK
    PROVE  /\ registers_get_mode(Fetched) = registers_get_mode(p)
           /\ \A i \in (0 .. 15) \ {PC} : arm_read_register(Fetched, i) = arm_read_register(p, i)
<1>1. Fetched.CPSR = p.CPSR /\ Touches(p, Fetched, {PC})
  BY FetchTouches
<1>2. registers_get_mode(Fetched) = registers_get_mode(p)
  BY <1>1 DEF registers_get_mode
<1>3. ASSUME NEW i \in (0 .. 15) \ {PC}
      PROVE  arm_read_register(Fetched, i) = arm_read_register(p, i)
  <2>1. registers_read(Fetched, i, registers_get_mode(p)) = registers_read(p, i, registers_get_mode(p))
    BY <1>1, UntouchedReads
  <2>2. i # 15
    BY DEF PC
  <2> QED BY <1>2, <2>1, <2>2 DEF arm_read_register, arm_read_register_internal
<1> QED BY <1>2, <1>3

LEMMA FetchedIndexes ==
    ASSUME TypeOK, NEW t \in Transfers, t.rn # PC, OffsetRegister # PC
    PROVE  Indexed(Fetched, t) = Indexed(p, t)
<1>1. t.rn \in (0 .. 15) \ {PC} /\ OffsetRegister \in (0 .. 15) \ {PC}
  BY TransferFields, OffsetRegisterNumber
<1>2. /\ arm_read_register(Fetched, t.rn) = arm_read_register(p, t.rn)
      /\ arm_read_register(Fetched, OffsetRegister) = arm_read_register(p, OffsetRegister)
  BY <1>1, FetchedReads
<1>3. CarryFlag(Fetched) = CarryFlag(p)
  BY FetchTouches DEF CarryFlag
<1>4. Offset(Fetched, t) = Offset(p, t)
  BY <1>2, <1>3 DEF Offset
<1> QED BY <1>2, <1>4 DEF Indexed

LEMMA FetchedStart ==
    ASSUME TypeOK, NEW b \in Blocks, b.rn # PC
    PROVE  StartOf(Fetched, b) = StartOf(p, b)
<1>1. b.rn \in (0 .. 15) \ {PC}
  BY BlockFields
<1>2. arm_read_register(Fetched, b.rn) = arm_read_register(p, b.rn)
  BY <1>1, FetchedReads
<1> QED BY <1>2 DEF StartOf

(* A written register reads as what was written, or as zero where it has   *)
(* no slot.                                                                *)
LEMMA WrittenReads ==
    ASSUME NEW f \in RegisterFileType, NEW reg \in (0 .. 15) \ {PC}, NEW v
    PROVE  arm_read_register(arm_write_register(f, reg, v), reg)
              = IF mode_ind(reg, registers_get_mode(f)) = -1 THEN 0 ELSE v
<1> DEFINE mode == registers_get_mode(f)
           ind == mode_ind(reg, mode)
           g == arm_write_register(f, reg, v)
<1>1. g.CPSR = f.CPSR /\ reg # 15
  BY WriteKeepsStatus DEF PC
<1>2. arm_read_register(g, reg) = registers_read(g, reg, mode)
  BY <1>1 DEF arm_read_register, arm_read_register_internal, registers_get_mode
<1>3. CASE ind = -1
  BY <1>2, <1>3 DEF registers_read
<1>4. CASE ind # -1
  <2>1. ind + reg \in Slot
    BY <1>4, ModeIndexValues
  <2>2. g = [f EXCEPT !.genreg[ind + reg] = v]
    BY <1>4 DEF arm_write_register, registers_write
  <2>3. g.genreg[ind + reg] = v
    BY <2>1, <2>2 DEF RegisterFileType
  <2> QED BY <1>2, <1>4, <2>3 DEF registers_read
<1> QED BY <1>3, <1>4

(* A store leaves the registers it found and what they hold in memory.     *)
LEMMA SingleStoreHolds ==
    ASSUME MachineTypeOK, NEW t \in Transfers, Single(t), result' = SUCCESSFULLY_DECODED,
           ~t.load, t.P, ~t.W
    PROVE  TransferHeld(p', m', t)
<1>1. TypeOK /\ m \in Contents /\ Fetched \in RegisterFileType
  BY FetchedType DEF MachineTypeOK
<1>2. /\ t.rn \in 0 .. 15 /\ t.rd \in 0 .. 15
      /\ t.size # "other" => t.size \in {"byte", "half", "word"}
  BY TransferFields
<1>3. Store(t)
  BY UnimplementedFails DEF Single, RefuseTransfer, OtherTransfer, Load
<1>4. ~WritesBack(t) /\ t.size # "other"
  BY <1>3 DEF WritesBack, Store
<1>5. p' = Fetched
  <2>1. Execute(Done(Fetched))
    BY <1>3, <1>4 DEF Store, LoadStore, arm_load_store
  <2> QED BY <2>1, ExecuteDone
<1>6. Reached(Fetched, t) = {Indexed(Fetched, t)}
  BY DEF Reached, Unaddressed
<1>7. m' = Stored(m, t.size, Indexed(Fetched, t), arm_read_register(Fetched, t.rd))
  BY <1>3, <1>4, <1>6 DEF Store, StoredRegister
<1>8. Indexed(Fetched, t) \in Word /\ arm_read_register(Fetched, t.rd) \in Word
  BY <1>1, <1>2, ReachedAreWords, ArmReadType
<1>9. FitsAt(Indexed(Fetched, t), t.size) =>
         ReadFrom(m', t.size, Indexed(Fetched, t)) = arm_read_register(Fetched, t.rd) % SizeMod(t.size)
  BY <1>1, <1>2, <1>4, <1>7, <1>8, StoredIsRead
<1> QED BY <1>4, <1>5, <1>9 DEF TransferHeld

LEMMA BlockStoreHolds ==
    ASSUME MachineTypeOK, NEW b \in Blocks, Block(b), result' = SUCCESSFULLY_DECODED,
           ~b.load, ~b.W, ~b.S
    PROVE  BlockHeld(p', m', b)
<1>1. TypeOK /\ m \in Contents /\ Fetched \in RegisterFileType
  BY FetchedType DEF MachineTypeOK
<1>2. StoreBlock(b)
  BY RefusedBlockFails DEF Block, RefuseBlock, LoadBlock
<1>3. p' = Fetched
  <2>1. Execute(Done(Fetched))
    BY <1>2 DEF StoreBlock, BlockTransfer, arm_load_store_multiple, BlockRefused
  <2> QED BY <2>1, ExecuteDone
<1>4. m' = StoredBlock(Fetched, StartOf(Fetched, b), b)
  BY <1>2 DEF StoreBlock
<1>5. ASSUME NEW i \in b.list PROVE RegisterToStore(Fetched, b, i) = arm_read_register(Fetched, i)
  BY DEF RegisterToStore
<1> QED BY <1>1, <1>3, <1>4, <1>5, StoredBlockHolds DEF BlockHeld


(* The load that follows finds what the store left.                        *)
LEMMA SizesArePositive ==
    ASSUME NEW size \in {"byte", "half", "word"}
    PROVE  SizeMod(size) \in Nat /\ SizeMod(size) > 0
BY Powers, WordModFacts DEF SizeMod

LEMMA SingleLoadReads ==
    ASSUME MachineTypeOK, NEW t \in Transfers, Single(t), t.load, t.P, ~t.W, t.rn # PC, t.rd # PC,
           OffsetRegister # PC, Inside(Indexed(p, t), SizeInBytes(t.size)) # {},
           TransferHeld(p, m, t)
    PROVE  arm_read_register(p', t.rd) = arm_read_register(p, t.rd) % SizeMod(t.size)
<1> DEFINE address == Indexed(p, t)
           stored == arm_read_register(p, t.rd)
           mode == registers_get_mode(p)
<1>1. TypeOK /\ m \in Contents /\ Fetched \in RegisterFileType
  BY FetchedType DEF MachineTypeOK
<1>2. /\ t.rd \in (0 .. 15) \ {PC} /\ t.size \in {"byte", "half", "word"}
  BY TransferFields DEF TransferHeld
<1>3. Indexed(Fetched, t) = address /\ address \in Word /\ Reached(Fetched, t) = {address}
  <2>1. Indexed(Fetched, t) = address
    BY <1>1, FetchedIndexes
  <2>2. Reached(Fetched, t) = {Indexed(Fetched, t)}
    BY DEF Reached, Unaddressed
  <2>3. Indexed(Fetched, t) \in Word
    BY <1>1, <2>2, ReachedAreWords
  <2> QED BY <2>1, <2>2, <2>3
<1>4. ReadFrom(m, t.size, address) = stored % SizeMod(t.size)
  BY <1>2, <1>3, FitsIsAccepted DEF TransferHeld
<1>5. Loaded(t.size, address) = {ReadFrom(m, t.size, address)}
  BY <1>2, <1>3, FitsIsAccepted
<1>6. Load(t)
  BY <1>2 DEF Single, RefuseTransfer, Refused, OtherTransfer, Store
<1>7. LoadStore(FALSE, t.rn, address, TRUE, t.rd, ReadFrom(m, t.size, address), TRUE)
  <2>1. \E a \in Reached(Fetched, t) : \E v \in Loaded(t.size, a) :
           LoadStore(WritesBack(t), t.rn, Indexed(Fetched, t), TRUE, t.rd, v, TRUE)
    BY <1>6 DEF Load
  <2>2. WritesBack(t) = FALSE
    BY DEF WritesBack
  <2> HIDE DEF address
  <2> QED BY <1>3, <1>5, <2>1, <2>2
<1>8. p' = arm_write_register(Fetched, t.rd, ReadFrom(m, t.size, address))
  <2>1. Execute(Done(arm_write_register(Fetched, t.rd, ReadFrom(m, t.size, address))))
    BY <1>7 DEF LoadStore, arm_load_store
  <2> QED BY <2>1, ExecuteDone
<1>9. arm_read_register(p', t.rd)
         = IF mode_ind(t.rd, mode) = -1 THEN 0 ELSE ReadFrom(m, t.size, address)
  BY <1>1, <1>2, <1>8, FetchedReads, WrittenReads
<1>10. mode_ind(t.rd, mode) = -1 => stored = 0
  BY <1>2 DEF arm_read_register, arm_read_register_internal, registers_read, PC
<1>11. 0 % SizeMod(t.size) = 0
  BY <1>2, SizesArePositive
<1> HIDE DEF address, stored, mode
<1> QED BY <1>4, <1>9, <1>10, <1>11 DEF stored

LEMMA LoadedBlockKeepsMode ==
    ASSUME MachineTypeOK, NEW b \in Blocks, LoadBlock(b), ~b.W, ~b.S
    PROVE  registers_get_mode(p') = registers_get_mode(p)
<1>1. TypeOK /\ m \in Contents /\ Fetched \in RegisterFileType
  BY FetchedType DEF MachineTypeOK
<1>2. PICK loaded \in WordsLoaded(StartOf(Fetched, b), b) :
         BlockTransfer(TRUE, b.S, b.W, b.list, b.rn, AfterLast(StartOf(Fetched, b), b.list), loaded)
  BY DEF LoadBlock
<1> DEFINE current == LoadList(Fetched, b.list \ {PC}, registers_get_mode(Fetched), loaded)
           jumped == arm_write_register(current, PC, WordAligned(loaded[PC]))
<1>3. Execute(Done(IF PC \in b.list THEN jumped ELSE current))
  BY <1>2 DEF BlockTransfer, arm_load_store_multiple, LoadBlock, BlockRefused
<1>4. p' = IF PC \in b.list THEN jumped ELSE current
  BY <1>3, ExecuteDone
<1>5. current.CPSR = Fetched.CPSR
  BY <1>1, LoadListKeepsStatus
<1>6. b.list \in SUBSET (0 .. 15) /\ loaded \in [b.list -> Word]
  BY <1>1, BlockFields, WordsLoadedAre
<1>7. current \in RegisterFileType
  <2>1. \A list \in SUBSET (0 .. 15) : loaded \in [list -> Word] =>
           LoadList(Fetched, list \ {PC}, registers_get_mode(Fetched), loaded) \in RegisterFileType
    BY <1>1, LoadListType
  <2> QED BY <1>6, <2>1
<1> HIDE DEF current
<1>8. jumped.CPSR = current.CPSR
  BY <1>7, WriteKeepsStatus
<1> HIDE DEF jumped
<1> QED BY <1>1, <1>4, <1>5, <1>8, FetchedReads DEF registers_get_mode

LEMMA BlockLoadReads ==
    ASSUME MachineTypeOK, NEW b \in Blocks, Block(b), b.load, ~b.W, ~b.S, b.rn # PC,
           BlockHeld(p, m, b), NEW i \in b.list \ {PC},
           ~word_refused(PlaceOf(arm_read_register(p, b.rn), b, i))
    PROVE  arm_read_register(p', i) = arm_read_register(p, i)
<1> DEFINE mode == registers_get_mode(p)
           place == AddressOf(StartOf(p, b), i, b.list)
<1>1. TypeOK /\ m \in Contents /\ Fetched \in RegisterFileType /\ p \in RegisterFileType
  BY FetchedType DEF MachineTypeOK, TypeOK
<1>2. i \in 0 .. 15 /\ i # 15 /\ i \notin {PC} \cup BaseOf(b)
  BY BlockFields DEF PC, BaseOf
<1>3. LoadBlock(b)
  BY DEF Block, RefuseBlock, BlockRefused, StoreBlock
<1>4. ~word_refused(place)
  BY <1>1, PlaceIsAddress
<1>5. memory_read_word(m, place, BigEndian) = arm_read_register(p, i)
  BY <1>4 DEF BlockHeld
<1>6. /\ arm_read_register(p', i) = registers_read(p', i, mode)
      /\ arm_read_register(p, i) = registers_read(p, i, mode)
  BY <1>2, <1>3, LoadedBlockKeepsMode DEF arm_read_register, arm_read_register_internal
<1>7. CASE mode_ind(i, mode) = -1
  BY <1>6, <1>7 DEF registers_read
<1>8. CASE mode_ind(i, mode) # -1
  <2>1. AddressOf(StartOf(Fetched, b), i, b.list) = place
    BY <1>1, FetchedStart
  <2>2. LoadedBank(b) = mode
    BY DEF LoadedBank
  <2>3. registers_read(p', i, LoadedBank(b))
           = memory_read_word(m, AddressOf(StartOf(Fetched, b), i, b.list), BigEndian)
    BY <1>2, <1>3, <1>4, <1>8, <2>1, LoadedBlockOrdered
  <2> QED BY <1>5, <1>6, <2>1, <2>2, <2>3
<1> QED BY <1>7, <1>8


(* The load with the fields of a store has the store's address.            *)
AsLoad(t) == [t EXCEPT !.load = TRUE]

LEMMA TransferAsLoad ==
    ASSUME NEW t \in Transfers
    PROVE  /\ AsLoad(t).load = TRUE
           /\ AsLoad(t).class = t.class /\ AsLoad(t).rn = t.rn /\ AsLoad(t).rd = t.rd
           /\ AsLoad(t).P = t.P /\ AsLoad(t).W = t.W /\ AsLoad(t).size = t.size
           /\ \A q : Indexed(q, AsLoad(t)) = Indexed(q, t)
<1> DEFINE u == AsLoad(t)
<1>1. /\ u.load = TRUE
      /\ u.class = t.class /\ u.rn = t.rn /\ u.rd = t.rd /\ u.P = t.P /\ u.W = t.W
      /\ u.size = t.size /\ u.U = t.U /\ u.amount = t.amount /\ u.kind = t.kind
  BY DEF Transfers, AsLoad
<1> HIDE DEF u
<1>2. \A q : Indexed(q, u) = Indexed(q, t)
  BY <1>1 DEF Indexed, Offset
<1> QED BY <1>1, <1>2 DEF u

LEMMA BlockAsLoad ==
    ASSUME NEW b \in Blocks
    PROVE  /\ AsLoad(b).load = TRUE
           /\ AsLoad(b).class = b.class /\ AsLoad(b).rn = b.rn /\ AsLoad(b).list = b.list
           /\ AsLoad(b).W = b.W /\ AsLoad(b).S = b.S
           /\ \A q : StartOf(q, AsLoad(b)) = StartOf(q, b)
<1> DEFINE u == AsLoad(b)
<1>1. /\ u.load = TRUE
      /\ u.class = b.class /\ u.rn = b.rn /\ u.list = b.list /\ u.P = b.P /\ u.W = b.W
      /\ u.S = b.S /\ u.U = b.U
  BY DEF Blocks, AsLoad
<1> HIDE DEF u
<1>2. \A q : StartOf(q, u) = StartOf(q, b)
  BY <1>1 DEF StartOf, start_address
<1> QED BY <1>1, <1>2 DEF u

LEMMA StoreStaysHeld == ASSUME StoreIsHeld, [ProgramNext]_program PROVE StoreIsHeld'
<1>1. CASE UNCHANGED program
  BY <1>1 DEF StoreIsHeld, MachineTypeOK, TypeOK, program, machine
<1>2. CASE ProgramNext
  <2>1. MachineTypeOK /\ MachineTypeOK'
    BY <1>2, ProgramKeepsTypes DEF StoreIsHeld
  <2>2. ASSUME NEW t \in Transfers, Single(t) PROVE ins' = t /\ HeldIn(p', m', result', t)
    <3>1. t \notin Blocks
      BY TransferFields, BlockFields
    <3> QED BY <2>1, <2>2, <3>1, SingleStoreHolds DEF HeldIn, Single
  <2>3. ASSUME NEW b \in Blocks, Block(b) PROVE ins' = b /\ HeldIn(p', m', result', b)
    <3>1. b \notin Transfers
      BY TransferFields, BlockFields
    <3> QED BY <2>1, <2>3, <3>1, BlockStoreHolds DEF HeldIn, Block
  <2> QED BY <1>2, <2>1, <2>2, <2>3 DEF ProgramNext, StoreIsHeld
<1> QED BY <1>1, <1>2

LEMMA SingleLoadsBack ==
    ASSUME StoreIsHeld, NEW t \in Transfers, Single(t), ins' = t, LoadsBack(t),
           t.P, ~t.W, t.rd # PC, OffsetRegister # PC,
           Inside(Indexed(p, t), SizeInBytes(t.size)) # {}
    PROVE  arm_read_register(p', t.rd) = arm_read_register(p, t.rd) % SizeMod(t.size)
<1>1. /\ MachineTypeOK /\ ins # NoInstruction /\ HeldIn(p, m, result, ins)
      /\ ins \in Transfers \cup Blocks
  BY DEF StoreIsHeld, LoadsBack, NoInstruction
<1>2. ins \in Transfers /\ t = AsLoad(ins) /\ ~ins.load /\ t.rn # PC
      /\ result = SUCCESSFULLY_DECODED
  BY <1>1, TransferFields, BlockFields DEF LoadsBack, AsLoad
<1>3. TransferHeld(p, m, ins)
  BY <1>1, <1>2, TransferAsLoad DEF HeldIn
<1>4. TransferHeld(p, m, t) /\ t.load
  BY <1>2, <1>3, TransferAsLoad DEF TransferHeld
<1> QED BY <1>1, <1>2, <1>4, SingleLoadReads

LEMMA BlockLoadsBack ==
    ASSUME StoreIsHeld, NEW b \in Blocks, Block(b), ins' = b, LoadsBack(b), ~b.W, ~b.S,
           NEW i \in b.list \ {PC}, ~word_refused(PlaceOf(arm_read_register(p, b.rn), b, i))
    PROVE  arm_read_register(p', i) = arm_read_register(p, i)
<1>1. /\ MachineTypeOK /\ ins # NoInstruction /\ HeldIn(p, m, result, ins)
      /\ ins \in Transfers \cup Blocks
  BY DEF StoreIsHeld, LoadsBack, NoInstruction
<1>2. ins \in Blocks /\ b = AsLoad(ins) /\ ~ins.load /\ b.rn # PC
      /\ result = SUCCESSFULLY_DECODED
  BY <1>1, TransferFields, BlockFields DEF LoadsBack, AsLoad
<1>3. BlockHeld(p, m, ins)
  BY <1>1, <1>2, BlockAsLoad DEF HeldIn
<1>4. BlockHeld(p, m, b) /\ b.load
  <2>1. b.load = TRUE /\ b.list = ins.list /\ StartOf(p, b) = StartOf(p, ins)
    <3>1. /\ AsLoad(ins).load = TRUE /\ AsLoad(ins).list = ins.list
          /\ \A q : StartOf(q, AsLoad(ins)) = StartOf(q, ins)
      BY <1>2, BlockAsLoad
    <3>2. StartOf(p, AsLoad(ins)) = StartOf(p, ins)
      BY <3>1
    <3> QED BY <1>2, <3>1, <3>2
  <2> QED BY <1>3, <2>1 DEF BlockHeld
<1> QED BY <1>1, <1>2, <1>4, BlockLoadReads

(* What an STR, STRB, STRH or STM stored is loaded back by the load with   *)
(* the same fields that follows, cut to the size of the access, in every   *)
(* addressing mode that leaves the base alone, either byte order and every *)
(* mode of the processor (src/arm_load_store.c lines 86-234 and 245-381).  *)
THEOREM StoresAreLoadedBack == ProgramSpec => RoundTrip
<1> DEFINE Back ==
       \A b \in {ins'} : LoadsBack(b) =>
          IF b.class = "block"
          THEN \A i \in b.list \ {PC} :
                  (~b.W /\ ~b.S /\ ~word_refused(PlaceOf(arm_read_register(p, b.rn), b, i))) =>
                     arm_read_register(p', i) = arm_read_register(p, i)
          ELSE (/\ b.P /\ ~b.W /\ b.rd # PC /\ OffsetRegister # PC
                /\ Inside(Indexed(p, b), SizeInBytes(b.size)) # {}) =>
                  arm_read_register(p', b.rd) = arm_read_register(p, b.rd) % SizeMod(b.size)
<1>1. ProgramInit => StoreIsHeld
  BY ProgramInitIsTyped DEF ProgramInit, StoreIsHeld
<1>2. StoreIsHeld /\ [ProgramNext]_program => StoreIsHeld'
  BY StoreStaysHeld
<1>3. StoreIsHeld /\ [ProgramNext]_program => [Back]_program
  <2> SUFFICES ASSUME StoreIsHeld, ProgramNext PROVE Back
    OBVIOUS
  <2>1. CASE \E t \in Transfers : Single(t)
    <3>1. PICK t \in Transfers : Single(t)
      BY <2>1
    <3>2. ins' = t /\ t.class # "block"
      BY <3>1, TransferFields DEF Single
    <3> QED BY <3>1, <3>2, SingleLoadsBack
  <2>2. CASE \E b \in Blocks : Block(b)
    <3>1. PICK b \in Blocks : Block(b)
      BY <2>2
    <3>2. ins' = b /\ b.class = "block"
      BY <3>1, BlockFields DEF Block
    <3> QED BY <3>1, <3>2, BlockLoadsBack
  <2> QED BY <2>1, <2>2 DEF ProgramNext
<1> QED BY <1>1, <1>2, <1>3, PTL DEF ProgramSpec, RoundTrip

-----------------------------------------------------------------------------
(* The operands that instructions shift.                                   *)

(* Powers of two.                                                          *)
Pow(n) == 2 ^ n

LEMMA PowFacts ==
    /\ Width \in Nat /\ Width > 1 /\ Width % 8 = 0
    /\ Pow(0) = 1
    /\ \A n \in 0 .. Width : Pow(n) \in Nat /\ Pow(n) > 0
    /\ \A n \in 1 .. Width : Pow(n) = 2 * Pow(n - 1)
    /\ Modulus = Pow(Width) /\ Modulus \in Nat /\ Modulus > 0
<1>1. /\ Width \in Nat /\ Width % 8 = 0 /\ Width > 0
      /\ Pow(0) = 1
      /\ \A n \in 0 .. Width : Pow(n) \in Nat /\ Pow(n) > 0
      /\ \A n \in 1 .. Width : Pow(n) = 2 * Pow(n - 1)
      /\ Modulus = Pow(Width)
  BY ShifterAssumption, Zenon DEF ShiftsAssumption, Pow, Modulus
<1>2. Width > 1
  BY <1>1
<1> QED BY <1>1, <1>2

LEMMA PowSum ==
    ASSUME NEW a \in 0 .. Width, NEW b \in 0 .. (Width - a)
    PROVE  Pow(a) * Pow(b) = Pow(a + b)
<1> DEFINE N == Width - a
           S == {n \in 0 .. N : Pow(a) * Pow(n) = Pow(a + n)}
<1>1. N \in Nat
  BY PowFacts
<1>2. 0 \in S
  BY PowFacts
<1>3. ASSUME NEW n \in 1 .. N, n - 1 \in S PROVE n \in S
  <2>1. /\ n \in 1 .. Width /\ a + n \in 1 .. Width /\ n - 1 \in 0 .. Width
        /\ Pow(a) * Pow(n - 1) = Pow(a + (n - 1))
    BY <1>3, PowFacts
  <2>2. /\ Pow(n) = 2 * Pow(n - 1) /\ Pow(a + n) = 2 * Pow((a + n) - 1)
        /\ Pow(a) \in Nat /\ Pow(n - 1) \in Nat
    BY <2>1, PowFacts
  <2>3. (a + n) - 1 = a + (n - 1)
    BY <2>1
  <2>4. Pow(a) * (2 * Pow(n - 1)) = 2 * (Pow(a) * Pow(n - 1))
    BY <2>2
  <2> QED BY <2>1, <2>2, <2>3, <2>4
<1> HIDE DEF S
<1>4. \A n \in 0 .. N : n \in S
  BY <1>1, <1>2, <1>3, BoundedInduction
<1> QED BY <1>4 DEF S

LEMMA PowGrows ==
    ASSUME NEW a \in 0 .. Width, NEW b \in 0 .. a
    PROVE  Pow(b) <= Pow(a)
<1>1. /\ b \in 0 .. Width /\ a - b \in 0 .. (Width - b) /\ b + (a - b) = a
      /\ a - b \in 0 .. Width /\ a \in 0 .. Width
  BY PowFacts
<1>2. Pow(b) * Pow(a - b) = Pow(a)
  BY <1>1, PowSum
<1>3. Pow(b) \in Nat /\ Pow(b) > 0 /\ Pow(a - b) \in Nat /\ Pow(a - b) > 0
  BY <1>1, PowFacts
<1>4. \A x, y \in Nat : x > 0 /\ y > 0 => x <= x * y
  OBVIOUS
<1> QED BY <1>2, <1>3, <1>4

(* A word split at a bit: above it, below it, and the bit itself.          *)
Above(v, k) == v \div Pow(k)
Below(v, k) == v % Pow(k)

LEMMA Split ==
    ASSUME NEW v \in Number, NEW k \in 0 .. Width
    PROVE  /\ Above(v, k) \in Nat /\ Below(v, k) \in 0 .. (Pow(k) - 1)
           /\ v = Above(v, k) * Pow(k) + Below(v, k)
           /\ Above(v, k) < Pow(Width - k)
<1>1. v \in Nat /\ v < Modulus /\ Pow(k) \in Nat /\ Pow(k) > 0 /\ k + (Width - k) = Width
      /\ Width - k \in 0 .. (Width - k) /\ Width - k \in 0 .. Width
  BY PowFacts DEF Number
<1>2. Above(v, k) \in Nat /\ Below(v, k) \in 0 .. (Pow(k) - 1)
      /\ v = Above(v, k) * Pow(k) + Below(v, k)
  BY <1>1, QuotientAndRemainder DEF Above, Below
<1>3. Pow(k) * Pow(Width - k) = Modulus /\ Pow(Width - k) \in Nat
  BY <1>1, PowSum, PowFacts
<1>4. \A x, y, z, r \in Nat : z > 0 /\ x * z + r < z * y => x < y
  <2> SUFFICES ASSUME NEW x \in Nat, NEW y \in Nat, NEW z \in Nat, NEW r \in Nat,
                      z > 0, x * z + r < z * y, x >= y
               PROVE FALSE
    OBVIOUS
  <2>1. x * z >= y * z
    OBVIOUS
  <2> QED BY <2>1
<1>5. Above(v, k) * Pow(k) + Below(v, k) < Pow(k) * Pow(Width - k)
  BY <1>1, <1>2, <1>3
<1> QED BY <1>1, <1>2, <1>3, <1>4, <1>5

LEMMA Bit ==
    ASSUME NEW v \in Number, NEW k \in 1 .. Width
    PROVE  /\ get_bit(v, k - 1) = Above(v, k - 1) % 2
           /\ get_bit(v, k - 1) \in {0, 1}
           /\ Above(v, k) = Above(v, k - 1) \div 2
           /\ Above(v, k - 1) = 2 * Above(v, k) + get_bit(v, k - 1)
           /\ Below(v, k) = get_bit(v, k - 1) * Pow(k - 1) + Below(v, k - 1)
<1>1. k - 1 \in 0 .. Width /\ k \in 0 .. Width /\ v \in Nat
  BY PowFacts DEF Number
<1>2. /\ Pow(k) = 2 * Pow(k - 1) /\ Pow(k - 1) \in Nat /\ Pow(k - 1) > 0
      /\ Pow(k) \in Nat /\ Pow(k) > 0
  BY <1>1, PowFacts
<1>3. get_bit(v, k - 1) = Above(v, k - 1) % 2
  BY Zenon DEF get_bit, Above, Pow
<1>4. Above(v, k) = Above(v, k - 1) \div 2
  BY <1>1, <1>2, DividingTwice DEF Above
<1> DEFINE x == Above(v, k - 1)
           y == Above(v, k)
           b == get_bit(v, k - 1)
           w == Below(v, k - 1)
           u == Below(v, k)
           P == Pow(k - 1)
<1>5. x \in Nat /\ b = x % 2 /\ y = x \div 2 /\ w \in 0 .. (P - 1) /\ P \in Nat
      /\ v = x * P + w /\ v = y * (2 * P) + u /\ y \in Nat /\ u \in Nat
  BY <1>1, <1>2, <1>3, <1>4, Split
<1> HIDE DEF x, y, b, w, u, P
<1>6. b \in {0, 1} /\ x = 2 * y + b
  BY <1>5
<1>7. x * P = y * (2 * P) + b * P
  BY <1>5, <1>6
<1>8. u = b * P + w
  <2>1. b * P \in Nat
    BY <1>5, <1>6
  <2>2. y * (2 * P) \in Nat
    BY <1>5
  <2> QED BY <1>5, <1>7, <2>1, <2>2
<1> QED BY <1>3, <1>4, <1>6, <1>8 DEF x, y, b, w, u, P

(* What the n-fold shift is, once each shift by one bit is known.          *)
Steps(G, kind, n, v, c) == /\ G = [k \in 0 .. n |-> G[k]]
                           /\ G[0] = Operand(v, c)
                           /\ \A k \in 1 .. n : G[k] = OneBit(kind, G[k - 1])

LEMMA TimesIs ==
    ASSUME NEW kind, NEW n \in Nat, NEW v, NEW c, NEW G, Steps(G, kind, n, v, c)
    PROVE  Times(kind, n, v, c) = G[n]
<1> USE DEF Steps
<1> DEFINE Body(f) == [k \in 0 .. n |-> IF k = 0 THEN Operand(v, c) ELSE OneBit(kind, f[k - 1])]
           after == CHOOSE f : f = Body(f)
<1>1. G = Body(G)
  <2> HIDE DEF after
  <2>1. ASSUME NEW k \in 0 .. n
        PROVE  G[k] = IF k = 0 THEN Operand(v, c) ELSE OneBit(kind, G[k - 1])
    <3>1. k = 0 \/ k \in 1 .. n
      OBVIOUS
    <3> QED BY <3>1
  <2> QED BY <2>1
<1>2. after = Body(after)
  <2> HIDE DEF Body
  <2> QED BY <1>1
<1> HIDE DEF after
<1>3. after[0] = Operand(v, c) /\ \A k \in 1 .. n : after[k] = OneBit(kind, after[k - 1])
  <2>1. \A k \in 0 .. n : after[k] = IF k = 0 THEN Operand(v, c) ELSE OneBit(kind, after[k - 1])
    BY <1>2
  <2>2. 0 \in 0 .. n /\ \A k \in 1 .. n : k \in 0 .. n /\ k # 0
    OBVIOUS
  <2> HIDE DEF Body
  <2> QED BY <2>1, <2>2
<1> DEFINE S == {k \in 0 .. n : after[k] = G[k]}
<1>4. 0 \in S
  BY <1>3
<1>5. ASSUME NEW k \in 1 .. n, k - 1 \in S PROVE k \in S
  <2>1. after[k - 1] = G[k - 1] /\ k \in 0 .. n
    BY <1>5
  <2> QED BY <1>3, <2>1
<1> HIDE DEF S
<1>6. \A k \in 0 .. n : k \in S
  BY <1>4, <1>5, BoundedInduction
<1>7. after[n] = G[n]
  BY <1>6 DEF S
<1>8. Times(kind, n, v, c) = after[n]
  BY Zenon DEF Times, after
<1> QED BY <1>7, <1>8

LEMMA Doubling ==
    ASSUME NEW v \in Number, NEW k \in 1 .. Width
    PROVE  /\ Below(v, Width - k) * Pow(k) \in Number
           /\ 2 * (Below(v, Width - (k - 1)) * Pow(k - 1))
                = get_bit(v, Width - k) * Modulus + Below(v, Width - k) * Pow(k)
<1>1. /\ Width - k \in 0 .. Width /\ (Width - k) + 1 \in 1 .. Width /\ k - 1 \in 0 .. Width
      /\ k \in 0 .. Width /\ k \in 0 .. (Width - (Width - k)) /\ (Width - k) + k = Width
      /\ ((Width - k) + 1) - 1 = Width - k /\ Width - (k - 1) = (Width - k) + 1
  BY PowFacts
<1> DEFINE u == Below(v, Width - (k - 1))
           w == Below(v, Width - k)
           b == get_bit(v, Width - k)
           Q == Pow(Width - k)
           P == Pow(k)
           R == Pow(k - 1)
<1>2. u = b * Q + w /\ b \in {0, 1}
  BY <1>1, Bit
<1>3. w \in 0 .. (Q - 1) /\ Q \in Nat /\ P \in Nat /\ P > 0 /\ R \in Nat /\ P = 2 * R
  BY <1>1, Split, PowFacts
<1>4. Q * P = Modulus
  BY <1>1, PowSum, PowFacts
<1> HIDE DEF u, w, b, Q, P, R
<1>5. 2 * (u * R) = b * (Q * P) + w * P
  BY <1>2, <1>3
<1>6. w * P \in Number
  <2>1. w * P <= (Q - 1) * P /\ w * P \in Nat
    BY <1>3
  <2>2. (Q - 1) * P = Q * P - P
    BY <1>3
  <2> QED BY <1>3, <1>4, <2>1, <2>2, PowFacts DEF Number
<1> QED BY <1>4, <1>5, <1>6 DEF u, w, b, Q, P, R

(* A shift to the left keeps the low bits.                                 *)
LEMMA LslIs ==
    ASSUME NEW v \in Number, NEW k \in 0 .. Width
    PROVE  lsl(v, k) = Below(v, Width - k) * Pow(k)
<1>1. /\ Width - k \in 0 .. Width /\ k \in 0 .. (Width - (Width - k)) /\ (Width - k) + k = Width
  BY PowFacts
<1> DEFINE a == Above(v, Width - k)
           w == Below(v, Width - k)
           Q == Pow(Width - k)
           P == Pow(k)
<1>2. /\ a \in Nat /\ w \in 0 .. (Q - 1) /\ v = a * Q + w
      /\ Q \in Nat /\ P \in Nat /\ P > 0
  BY <1>1, Split, PowFacts
<1>3. Q * P = Modulus
  BY <1>1, PowSum, PowFacts
<1>4. lsl(v, k) = (v * P) % Modulus
  BY Zenon DEF lsl, Pow
<1> HIDE DEF a, w, Q, P
<1>5. v * P = a * (Q * P) + w * P
  BY <1>2
<1>6. w * P \in 0 .. (Modulus - 1)
  <2>1. w * P <= (Q - 1) * P /\ w * P \in Nat
    BY <1>2
  <2>2. (Q - 1) * P = Q * P - P
    BY <1>2
  <2> QED BY <1>2, <1>3, <2>1, <2>2, PowFacts
<1>7. (a * Modulus + w * P) % Modulus = w * P
  BY <1>2, <1>6, PowFacts, Division
<1> QED BY <1>3, <1>4, <1>5, <1>7 DEF w, P

(* n shifts to the left.                                                   *)
AfterLeft(v, c, n) ==
    [k \in 0 .. n |->
       IF k = 0 THEN Operand(v, c)
       ELSE IF k <= Width THEN Operand(Below(v, Width - k) * Pow(k), get_bit(v, Width - k))
       ELSE Operand(0, 0)]

LEMMA TimesLeft ==
    ASSUME NEW v \in Number, NEW c \in {0, 1}, NEW n \in Nat
    PROVE  Times("LSL", n, v, c) = AfterLeft(v, c, n)[n]
<1> DEFINE G == AfterLeft(v, c, n)
<1>1. G = [k \in 0 .. n |-> G[k]] /\ G[0] = Operand(v, c)
  BY DEF AfterLeft
<1>2. ASSUME NEW k \in 1 .. n, k <= Width
      PROVE  G[k] = Operand(Below(v, Width - k) * Pow(k), get_bit(v, Width - k))
  BY <1>2 DEF AfterLeft
<1>3. ASSUME NEW k \in 1 .. n, k > Width PROVE G[k] = Operand(0, 0)
  BY <1>3, PowFacts DEF AfterLeft
<1>4. \A s : OneBit("LSL", s) = Operand((2 * s.operand) % Modulus, (2 * s.operand) \div Modulus)
  BY DEF OneBit
<1>5. Below(v, Width - 0) * Pow(0) = v
  <2>1. Below(v, Width) = v
    BY PowFacts DEF Below, Number
  <2> QED BY <2>1, PowFacts DEF Number
<1>6. Below(v, Width - Width) * Pow(Width) = 0
  <2>1. Width - Width = 0 /\ 0 \in 0 .. Width
    BY PowFacts
  <2>2. Below(v, 0) = 0
    BY <2>1, Split, PowFacts
  <2> QED BY <2>1, <2>2, PowFacts
<1>7. ASSUME NEW k \in 1 .. n, k <= Width PROVE G[k] = OneBit("LSL", G[k - 1])
  <2> DEFINE y == Below(v, Width - k) * Pow(k)
             x == Below(v, Width - (k - 1)) * Pow(k - 1)
             b == get_bit(v, Width - k)
  <2>1. G[k - 1].operand = x
    <3>1. CASE k = 1
      BY <1>1, <1>5, <3>1 DEF Operand
    <3>2. CASE k # 1
      <4>1. k - 1 \in 1 .. n /\ k - 1 <= Width
        BY <1>7, <3>2, PowFacts
      <4>2. G[k - 1] = Operand(x, get_bit(v, Width - (k - 1)))
        BY <1>2, <4>1
      <4> QED BY <4>2 DEF Operand
    <3> QED BY <3>1, <3>2
  <2>2. k \in 1 .. Width
    BY <1>7, PowFacts
  <2>3. y \in Number /\ 2 * x = b * Modulus + y
    BY <2>2, Doubling
  <2>4. b \in {0, 1}
    <3>1. (Width - k) + 1 \in 1 .. Width /\ ((Width - k) + 1) - 1 = Width - k
      BY <2>2, PowFacts
    <3> QED BY <3>1, Bit
  <2>5. G[k] = Operand(y, b)
    BY <1>2, <1>7
  <2> HIDE DEF G, x, y, b
  <2>6. (b * Modulus + y) % Modulus = y /\ (b * Modulus + y) \div Modulus = b
    <3>1. y \in 0 .. (Modulus - 1) /\ b \in Nat /\ Modulus \in Nat /\ Modulus > 0
      BY <2>3, <2>4, PowFacts DEF Number
    <3> QED BY <3>1, Division
  <2> QED BY <1>4, <2>1, <2>3, <2>5, <2>6
<1>8. ASSUME NEW k \in 1 .. n, k > Width PROVE G[k] = OneBit("LSL", G[k - 1])
  <2>1. k - 1 \in 1 .. n /\ k - 1 >= Width
    BY <1>8, PowFacts
  <2>2. G[k - 1].operand = 0
    <3>1. CASE k - 1 = Width
      <4>1. G[k - 1] = Operand(Below(v, Width - (k - 1)) * Pow(k - 1), get_bit(v, Width - (k - 1)))
        BY <1>2, <2>1, <3>1, PowFacts
      <4>2. G[k - 1].operand = Below(v, Width - (k - 1)) * Pow(k - 1)
        BY <4>1 DEF Operand
      <4> QED BY <1>6, <3>1, <4>2
    <3>2. CASE k - 1 # Width
      <4>1. k - 1 > Width
        BY <2>1, <3>2, PowFacts
      <4> QED BY <1>3, <2>1, <4>1 DEF Operand
    <3> QED BY <3>1, <3>2
  <2>3. (2 * 0) % Modulus = 0 /\ (2 * 0) \div Modulus = 0
    BY PowFacts
  <2> HIDE DEF G
  <2> QED BY <1>3, <1>4, <1>8, <2>2, <2>3
<1>9. \A k \in 1 .. n : G[k] = OneBit("LSL", G[k - 1])
  BY <1>7, <1>8, PowFacts
<1> HIDE DEF G
<1>10. Times("LSL", n, v, c) = G[n]
  <2>1. Steps(G, "LSL", n, v, c)
    BY <1>1, <1>9 DEF Steps
  <2> QED BY <2>1, TimesIs
<1> QED BY <1>10 DEF G

(* n logical shifts to the right.                                          *)
AfterRight(v, c, n) ==
    [k \in 0 .. n |->
       IF k = 0 THEN Operand(v, c)
       ELSE IF k <= Width THEN Operand(Above(v, k), get_bit(v, k - 1))
       ELSE Operand(0, 0)]

LEMMA WholeWord ==
    ASSUME NEW v \in Number
    PROVE  Above(v, 0) = v /\ Above(v, Width) = 0 /\ Below(v, 0) = 0 /\ Below(v, Width) = v
<1>1. 0 \in 0 .. Width /\ Width \in 0 .. Width /\ Pow(0) = 1 /\ v \in 0 .. (Pow(Width) - 1)
      /\ Pow(Width) \in Nat /\ Pow(Width) > 0
  BY PowFacts DEF Number
<1>2. Below(v, 0) = 0 /\ Above(v, 0) = v
  BY <1>1, Split
<1>3. \A w, b \in Nat : w < b => w \div b = 0 /\ w % b = w
  OBVIOUS
<1> QED BY <1>1, <1>2, <1>3 DEF Above, Below

LEMMA TimesRight ==
    ASSUME NEW v \in Number, NEW c \in {0, 1}, NEW n \in Nat
    PROVE  Times("LSR", n, v, c) = AfterRight(v, c, n)[n]
<1> DEFINE G == AfterRight(v, c, n)
<1>1. G = [k \in 0 .. n |-> G[k]] /\ G[0] = Operand(v, c)
  BY DEF AfterRight
<1>2. ASSUME NEW k \in 1 .. n, k <= Width PROVE G[k] = Operand(Above(v, k), get_bit(v, k - 1))
  BY <1>2 DEF AfterRight
<1>3. ASSUME NEW k \in 1 .. n, k > Width PROVE G[k] = Operand(0, 0)
  BY <1>3, PowFacts DEF AfterRight
<1>4. \A s : OneBit("LSR", s) = Operand(s.operand \div 2, s.operand % 2)
  BY DEF OneBit
<1> HIDE DEF G
<1>5. ASSUME NEW k \in 1 .. n, k <= Width PROVE G[k] = OneBit("LSR", G[k - 1])
  <2>1. k \in 1 .. Width
    BY <1>5, PowFacts
  <2>2. G[k - 1].operand = Above(v, k - 1)
    <3>1. CASE k = 1
      BY <1>1, <3>1, WholeWord DEF Operand
    <3>2. CASE k # 1
      <4>1. k - 1 \in 1 .. n /\ k - 1 <= Width
        BY <1>5, <3>2, PowFacts
      <4>2. G[k - 1] = Operand(Above(v, k - 1), get_bit(v, (k - 1) - 1))
        BY <1>2, <4>1
      <4> QED BY <4>2 DEF Operand
    <3> QED BY <3>1, <3>2
  <2>3. G[k] = Operand(Above(v, k), get_bit(v, k - 1))
    BY <1>2, <1>5
  <2>4. Above(v, k) = Above(v, k - 1) \div 2 /\ get_bit(v, k - 1) = Above(v, k - 1) % 2
    BY <2>1, Bit
  <2> QED BY <1>4, <2>2, <2>3, <2>4
<1>6. ASSUME NEW k \in 1 .. n, k > Width PROVE G[k] = OneBit("LSR", G[k - 1])
  <2>1. k - 1 \in 1 .. n /\ k - 1 >= Width
    BY <1>6, PowFacts
  <2>2. G[k - 1].operand = 0
    <3>1. CASE k - 1 = Width
      <4>1. G[k - 1] = Operand(Above(v, k - 1), get_bit(v, (k - 1) - 1))
        BY <1>2, <2>1, <3>1, PowFacts
      <4>2. G[k - 1].operand = Above(v, k - 1)
        BY <4>1 DEF Operand
      <4> QED BY <3>1, <4>2, WholeWord
    <3>2. CASE k - 1 # Width
      <4>1. k - 1 > Width
        BY <2>1, <3>2, PowFacts
      <4> QED BY <1>3, <2>1, <4>1 DEF Operand
    <3> QED BY <3>1, <3>2
  <2>3. 0 \div 2 = 0 /\ 0 % 2 = 0
    OBVIOUS
  <2> QED BY <1>3, <1>4, <1>6, <2>2, <2>3
<1>7. Steps(G, "LSR", n, v, c)
  <2>1. \A k \in 1 .. n : G[k] = OneBit("LSR", G[k - 1])
    BY <1>5, <1>6, PowFacts
  <2> QED BY <1>1, <2>1 DEF Steps
<1>8. Times("LSR", n, v, c) = G[n]
  BY <1>7, TimesIs
<1> QED BY <1>8 DEF G

(* n arithmetic shifts to the right: the sign comes in from above.         *)
Sign(v)      == get_bit(v, Width - 1)
Filled(v, k) == Above(v, k) + Sign(v) * (Modulus - Pow(Width - k))

AfterSigned(v, c, n) ==
    [k \in 0 .. n |->
       IF k = 0 THEN Operand(v, c)
       ELSE IF k <= Width THEN Operand(Filled(v, k), get_bit(v, k - 1))
       ELSE Operand(Sign(v) * (Modulus - 1), Sign(v))]

LEMMA SignIs ==
    ASSUME NEW v \in Number
    PROVE  /\ Sign(v) \in {0, 1} /\ Modulus = 2 * Pow(Width - 1)
           /\ Modulus \div 2 = Pow(Width - 1)
           /\ Sign(v) = 1 <=> v >= Pow(Width - 1)
<1>1. Width \in 1 .. Width /\ Width - 1 \in 0 .. Width /\ Width - (Width - 1) = 1 /\ Pow(1) = 2
      /\ 1 \in 1 .. Width /\ 1 - 1 = 0
  <2>1. Width \in 1 .. Width /\ Width - 1 \in 0 .. Width /\ Width - (Width - 1) = 1
        /\ 1 \in 1 .. Width /\ 1 - 1 = 0
    BY PowFacts
  <2> QED BY <2>1, PowFacts
<1>2. Modulus = 2 * Pow(Width - 1) /\ Pow(Width - 1) \in Nat
  BY <1>1, PowFacts
<1>3. /\ Sign(v) = Above(v, Width - 1) % 2 /\ Above(v, Width - 1) < 2
      /\ Above(v, Width - 1) \in Nat
      /\ v = Above(v, Width - 1) * Pow(Width - 1) + Below(v, Width - 1)
      /\ Below(v, Width - 1) \in 0 .. (Pow(Width - 1) - 1)
  BY <1>1, Split, Bit DEF Sign
<1> DEFINE a == Above(v, Width - 1)
           b == Below(v, Width - 1)
           P == Pow(Width - 1)
<1>4. /\ Sign(v) = a % 2 /\ a < 2 /\ a \in Nat /\ v = a * P + b
      /\ b \in 0 .. (P - 1) /\ P \in Nat
  BY <1>2, <1>3
<1> HIDE DEF a, b, P
<1>5. a \in {0, 1} /\ Sign(v) = a
  BY <1>4
<1>6. a = 1 <=> v >= P
  <2>1. CASE a = 0
    BY <1>4, <2>1
  <2>2. CASE a = 1
    BY <1>4, <2>2
  <2> QED BY <1>5, <2>1, <2>2
<1> QED BY <1>2, <1>5, <1>6 DEF P

LEMMA FilledHalves ==
    ASSUME NEW v \in Number, NEW k \in 1 .. Width
    PROVE  /\ Filled(v, k - 1) \in Number
           /\ Filled(v, k - 1) % 2 = get_bit(v, k - 1)
           /\ Filled(v, k) = (Filled(v, k - 1) \div 2)
                               + (IF Filled(v, k - 1) >= Modulus \div 2 THEN Modulus \div 2 ELSE 0)
<1>1. k - 1 \in 0 .. Width /\ k \in 0 .. Width /\ Width - k \in 0 .. (Width - 1)
      /\ (Width - k) + 1 \in 1 .. Width /\ ((Width - k) + 1) - 1 = Width - k
      /\ Width - (k - 1) = (Width - k) + 1 /\ Width - 1 \in 0 .. Width
      /\ k - 1 \in 0 .. (Width - (Width - k)) /\ Width - k \in 0 .. Width
      /\ (Width - k) + (k - 1) = Width - 1
  BY PowFacts
<1> DEFINE s == Sign(v)
           H == Pow(Width - 1)
           Q == Pow(Width - k)
           R == Pow(k - 1)
           a == Above(v, k - 1)
           y == Above(v, k)
           b == get_bit(v, k - 1)
           x == Filled(v, k - 1)
<1>2. /\ s \in {0, 1} /\ Modulus = 2 * H /\ Modulus \div 2 = H /\ (s = 1 <=> v >= H)
  BY SignIs
<1>3. a \in Nat /\ y \in Nat /\ b \in {0, 1} /\ a = 2 * y + b /\ a < 2 * Q
  <2>1. a < Pow(Width - (k - 1)) /\ Pow(Width - (k - 1)) = 2 * Q
    BY <1>1, Split, PowFacts
  <2> QED BY <1>1, <2>1, Split, Bit
<1>4. /\ H \in Nat /\ H > 0 /\ Q \in Nat /\ Q > 0 /\ Q <= H /\ Q * R = H /\ R \in Nat /\ R > 0
  BY <1>1, PowFacts, PowGrows, PowSum
<1>5. x = a + s * (2 * H - 2 * Q) /\ Filled(v, k) = y + s * (2 * H - Q)
  BY <1>1, <1>2, PowFacts DEF Filled
<1>6. /\ s = 0 => a < H
      /\ s = 1 => a >= Q
  <2> DEFINE w == Below(v, k - 1)
  <2>1. v \in Nat /\ v = a * R + w /\ w \in 0 .. (R - 1)
    BY <1>1, Split DEF Number
  <2> HIDE DEF s, H, Q, R, a, w
  <2>2. a <= a * R /\ a * R \in Nat
    BY <1>3, <1>4
  <2>3. s = 0 => a < H
    BY <1>2, <1>3, <1>4, <2>1, <2>2
  <2>4. ASSUME s = 1, a < Q PROVE FALSE
    <3>1. (a + 1) * R <= Q * R
      BY <1>3, <1>4, <2>4
    <3>2. (a + 1) * R = a * R + R
      BY <1>3, <1>4
    <3> QED BY <1>2, <1>3, <1>4, <2>1, <2>2, <2>4, <3>1, <3>2
  <2> QED BY <1>3, <1>4, <2>3, <2>4
<1>7. Filled(v, k - 1) = x /\ get_bit(v, k - 1) = b
  OBVIOUS
<1>8. SUFFICES /\ x \in Number /\ x % 2 = b
               /\ Filled(v, k) = (x \div 2) + (IF x >= Modulus \div 2 THEN Modulus \div 2 ELSE 0)
  OBVIOUS
<1> HIDE DEF s, H, Q, R, a, y, b, x
<1>9. CASE s = 0
  <2>1. x = a /\ Filled(v, k) = y /\ a < H
    BY <1>3, <1>4, <1>5, <1>6, <1>9
  <2> QED BY <1>2, <1>3, <1>4, <2>1 DEF Number
<1>10. CASE s = 1
  <2>1. x = a + (2 * H - 2 * Q) /\ Filled(v, k) = y + (2 * H - Q) /\ a >= Q
    BY <1>3, <1>4, <1>5, <1>6, <1>10
  <2>2. x = 2 * (y + (H - Q)) + b /\ y + (H - Q) \in Int
    BY <1>3, <1>4, <2>1
  <2>3. x >= H /\ x < 2 * H
    BY <1>3, <1>4, <2>1
  <2>4. x % 2 = b /\ x \div 2 = y + (H - Q)
    BY <1>3, <2>2
  <2> QED BY <1>2, <1>3, <1>4, <2>1, <2>3, <2>4 DEF Number
<1> QED BY <1>2, <1>9, <1>10

LEMMA TimesSigned ==
    ASSUME NEW v \in Number, NEW c \in {0, 1}, NEW n \in Nat
    PROVE  Times("ASR", n, v, c) = AfterSigned(v, c, n)[n]
<1> DEFINE G == AfterSigned(v, c, n)
           H == Modulus \div 2
<1>1. G = [k \in 0 .. n |-> G[k]] /\ G[0] = Operand(v, c)
  BY DEF AfterSigned
<1>2. ASSUME NEW k \in 1 .. n, k <= Width PROVE G[k] = Operand(Filled(v, k), get_bit(v, k - 1))
  BY <1>2 DEF AfterSigned
<1>3. ASSUME NEW k \in 1 .. n, k > Width
      PROVE  G[k] = Operand(Sign(v) * (Modulus - 1), Sign(v))
  BY <1>3, PowFacts DEF AfterSigned
<1>4. \A s : OneBit("ASR", s)
               = Operand((s.operand \div 2) + (IF s.operand >= H THEN H ELSE 0), s.operand % 2)
  BY DEF OneBit
<1>5. Filled(v, 0) = v
  <2>1. Width - 0 = Width /\ Modulus - Pow(Width) = 0 /\ Sign(v) \in {0, 1}
    BY SignIs, PowFacts
  <2> QED BY <2>1, WholeWord DEF Filled, Number
<1>6. Filled(v, Width) = Sign(v) * (Modulus - 1)
  <2>1. Width - Width = 0 /\ Pow(0) = 1 /\ Sign(v) \in {0, 1} /\ Modulus \in Nat
    BY SignIs, PowFacts
  <2> QED BY <2>1, WholeWord DEF Filled
<1> HIDE DEF G
<1>7. ASSUME NEW k \in 1 .. n, k <= Width PROVE G[k] = OneBit("ASR", G[k - 1])
  <2>1. k \in 1 .. Width
    BY <1>7, PowFacts
  <2>2. G[k - 1].operand = Filled(v, k - 1)
    <3>1. CASE k = 1
      BY <1>1, <1>5, <3>1 DEF Operand
    <3>2. CASE k # 1
      <4>1. k - 1 \in 1 .. n /\ k - 1 <= Width
        BY <1>7, <3>2, PowFacts
      <4>2. G[k - 1] = Operand(Filled(v, k - 1), get_bit(v, (k - 1) - 1))
        BY <1>2, <4>1
      <4> QED BY <4>2 DEF Operand
    <3> QED BY <3>1, <3>2
  <2>3. G[k] = Operand(Filled(v, k), get_bit(v, k - 1))
    BY <1>2, <1>7
  <2>4. /\ Filled(v, k - 1) % 2 = get_bit(v, k - 1)
        /\ Filled(v, k) = (Filled(v, k - 1) \div 2) + (IF Filled(v, k - 1) >= H THEN H ELSE 0)
    BY <2>1, FilledHalves
  <2> HIDE DEF H
  <2> QED BY <1>4, <2>2, <2>3, <2>4
<1>8. ASSUME NEW k \in 1 .. n, k > Width PROVE G[k] = OneBit("ASR", G[k - 1])
  <2>1. k - 1 \in 1 .. n /\ k - 1 >= Width
    BY <1>8, PowFacts
  <2> DEFINE x == Sign(v) * (Modulus - 1)
  <2>2. G[k - 1].operand = x
    <3>1. CASE k - 1 = Width
      <4>1. G[k - 1] = Operand(Filled(v, k - 1), get_bit(v, (k - 1) - 1))
        BY <1>2, <2>1, <3>1, PowFacts
      <4>2. G[k - 1].operand = Filled(v, k - 1)
        BY <4>1 DEF Operand
      <4> QED BY <1>6, <3>1, <4>2
    <3>2. CASE k - 1 # Width
      <4>1. k - 1 > Width
        BY <2>1, <3>2, PowFacts
      <4>2. G[k - 1] = Operand(x, Sign(v))
        BY <1>3, <2>1, <4>1
      <4> QED BY <4>2 DEF Operand
    <3> QED BY <3>1, <3>2
  <2>3. (x \div 2) + (IF x >= H THEN H ELSE 0) = x /\ x % 2 = Sign(v)
    <3> DEFINE P == Pow(Width - 1)
               s == Sign(v)
    <3>1. s \in {0, 1} /\ Modulus = 2 * P /\ H = P /\ P \in Nat /\ P > 0
      BY SignIs, PowFacts
    <3> HIDE DEF P, s, H
    <3>2. CASE s = 0
      <4>1. s * (Modulus - 1) = 0
        BY <3>1, <3>2
      <4> QED BY <3>1, <3>2, <4>1 DEF s
    <3>3. CASE s = 1
      <4>1. s * (Modulus - 1) = 2 * (P - 1) + 1
        BY <3>1, <3>3
      <4>2. (2 * (P - 1) + 1) \div 2 = P - 1 /\ (2 * (P - 1) + 1) % 2 = 1
        BY <3>1
      <4> QED BY <3>1, <3>3, <4>1, <4>2 DEF s
    <3> QED BY <3>1, <3>2, <3>3
  <2>4. G[k] = Operand(x, Sign(v))
    BY <1>3, <1>8
  <2> HIDE DEF x, H
  <2> QED BY <1>4, <2>2, <2>3, <2>4
<1>9. Steps(G, "ASR", n, v, c)
  <2>1. \A k \in 1 .. n : G[k] = OneBit("ASR", G[k - 1])
    BY <1>7, <1>8, PowFacts
  <2> QED BY <1>1, <2>1 DEF Steps
<1>10. Times("ASR", n, v, c) = G[n]
  BY <1>9, TimesIs
<1> QED BY <1>10 DEF G

(* n rotations to the right: the low bits come in from above.              *)
Rotated(v, k) == Above(v, k) + Below(v, k) * Pow(Width - k)

LEMMA RotatedIs ==
    ASSUME NEW v \in Number, NEW k \in 0 .. Width
    PROVE  /\ Rotated(v, k) \in Number
           /\ Rotated(v, 0) = v /\ Rotated(v, Width) = v
<1>1. Width - k \in 0 .. Width /\ k \in 0 .. (Width - (Width - k)) /\ (Width - k) + k = Width
      /\ Width - 0 = Width /\ Width - Width = 0
  BY PowFacts
<1> DEFINE a == Above(v, k)
           w == Below(v, k)
           Q == Pow(Width - k)
           P == Pow(k)
<1>2. /\ a \in 0 .. (Q - 1) /\ w \in 0 .. (P - 1) /\ Q \in Nat /\ P \in Nat
      /\ Q * P = Modulus /\ Rotated(v, k) = a + w * Q
  <2>1. Q * P = Pow((Width - k) + k)
    BY <1>1, PowSum
  <2>2. a \in Nat /\ w \in 0 .. (P - 1) /\ a < Q
    BY Split
  <2>3. Q \in Nat /\ P \in Nat /\ Modulus = Pow(Width)
    BY <1>1, PowFacts
  <2>4. Rotated(v, k) = a + w * Q
    BY DEF Rotated
  <2> QED BY <1>1, <2>1, <2>2, <2>3, <2>4
<1>3. Rotated(v, k) \in Number
  <2> HIDE DEF a, w, Q, P
  <2>1. w * Q <= (P - 1) * Q /\ w * Q \in Nat
    BY <1>2
  <2>2. (P - 1) * Q = Q * P - Q
    BY <1>2
  <2> QED BY <1>2, <2>1, <2>2 DEF Number
<1>4. Rotated(v, 0) = v /\ Rotated(v, Width) = v
  <2>1. Above(v, 0) = v /\ Above(v, Width) = 0 /\ Below(v, 0) = 0 /\ Below(v, Width) = v
        /\ v \in Nat
    BY WholeWord DEF Number
  <2>2. v + 0 * Pow(Width) = v /\ 0 + v * Pow(0) = v
    BY <2>1, PowFacts
  <2> QED BY <1>1, <2>1, <2>2 DEF Rotated
<1> QED BY <1>3, <1>4

LEMMA RotatedHalves ==
    ASSUME NEW v \in Number, NEW k \in 1 .. Width
    PROVE  /\ Rotated(v, k - 1) % 2 = get_bit(v, k - 1)
           /\ Rotated(v, k) = (Rotated(v, k - 1) \div 2) + get_bit(v, k - 1) * (Modulus \div 2)
<1>1. k - 1 \in 0 .. Width /\ k \in 0 .. Width /\ Width - k \in 0 .. (Width - 1)
      /\ (Width - k) + 1 \in 1 .. Width /\ ((Width - k) + 1) - 1 = Width - k
      /\ Width - (k - 1) = (Width - k) + 1
      /\ k - 1 \in 0 .. (Width - (Width - k)) /\ Width - k \in 0 .. Width
      /\ (Width - k) + (k - 1) = Width - 1
  BY PowFacts
<1> DEFINE H == Modulus \div 2
           Q == Pow(Width - k)
           R == Pow(k - 1)
           a == Above(v, k - 1)
           y == Above(v, k)
           r == Below(v, k - 1)
           b == get_bit(v, k - 1)
<1>2. /\ a = 2 * y + b /\ Below(v, k) = b * R + r /\ b \in {0, 1} /\ y \in Nat /\ r \in Nat
  <2>1. Below(v, k - 1) \in Nat
    <3>1. Below(v, k - 1) \in 0 .. (Pow(k - 1) - 1) /\ Pow(k - 1) \in Nat
      BY <1>1, Split, PowFacts
    <3> QED BY <3>1
  <2>2. Above(v, k) \in Nat
    BY <1>1, Split
  <2>3. /\ Above(v, k - 1) = 2 * Above(v, k) + get_bit(v, k - 1)
        /\ Below(v, k) = get_bit(v, k - 1) * Pow(k - 1) + Below(v, k - 1)
        /\ get_bit(v, k - 1) \in {0, 1}
    BY Bit
  <2> QED BY <2>1, <2>2, <2>3
<1>3. Pow(Width - (k - 1)) = 2 * Q /\ Q \in Nat /\ R \in Nat /\ Q * R = H
  <2>1. Q * R = Pow(Width - 1)
    BY <1>1, PowSum
  <2> QED BY <1>1, <2>1, PowFacts, SignIs
<1>4. Rotated(v, k - 1) = a + r * (2 * Q) /\ Rotated(v, k) = y + (b * R + r) * Q
  BY <1>2, <1>3 DEF Rotated
<1> HIDE DEF H, Q, R, a, y, r
<1>5. a + r * (2 * Q) = 2 * (y + r * Q) + b /\ y + r * Q \in Nat
  BY <1>2, <1>3
<1>6. (b * R + r) * Q = b * (Q * R) + r * Q
  BY <1>2, <1>3
<1> DEFINE x == y + r * Q
<1>7. Rotated(v, k - 1) = 2 * x + b /\ x \in Nat /\ Rotated(v, k) = x + b * H
  BY <1>2, <1>3, <1>4, <1>5, <1>6
<1> HIDE DEF x, b
<1>8. (2 * x + b) % 2 = b /\ (2 * x + b) \div 2 = x
  BY <1>2, <1>7
<1> QED BY <1>7, <1>8 DEF b, H

(* The rotation and the carry after k of n rotations.                      *)
Turned(k) == (k - 1) % Width

AfterRotated(v, c, n) ==
    [k \in 0 .. n |->
       IF k = 0 THEN Operand(v, c)
       ELSE Operand(Rotated(v, Turned(k) + 1), get_bit(v, Turned(k)))]

LEMMA TurnedIs ==
    ASSUME NEW k \in Nat, k > 0
    PROVE  /\ Turned(k) \in 0 .. (Width - 1)
           /\ Turned(k + 1) = IF Turned(k) + 1 = Width THEN 0 ELSE Turned(k) + 1
           /\ k <= Width => Turned(k) = k - 1
           /\ Turned(k) + 1 = IF k % Width = 0 THEN Width ELSE k % Width
<1> DEFINE q == (k - 1) \div Width
           r == (k - 1) % Width
<1>1. q \in Nat /\ r \in 0 .. (Width - 1) /\ k - 1 = q * Width + r /\ Width \in Nat /\ Width > 1
  <2>1. k - 1 \in Nat
    OBVIOUS
  <2> QED BY <2>1, QuotientAndRemainder, PowFacts
<1>2. Turned(k) = r /\ Turned(k + 1) = k % Width
  BY DEF Turned
<1> HIDE DEF q, r
<1>3. CASE r + 1 = Width
  <2>1. k = (q + 1) * Width + 0 /\ q + 1 \in Nat /\ 0 \in 0 .. (Width - 1)
    BY <1>1, <1>3
  <2>2. k % Width = 0
    BY <1>1, <2>1, Division
  <2>3. k <= Width => r = k - 1
    <3>1. q * Width >= 0
      BY <1>1
    <3> QED BY <1>1, <1>3, <3>1
  <2> QED BY <1>1, <1>2, <1>3, <2>2, <2>3
<1>4. CASE r + 1 # Width
  <2>1. k = q * Width + (r + 1) /\ r + 1 \in 0 .. (Width - 1)
    BY <1>1, <1>4
  <2>2. k % Width = r + 1
    BY <1>1, <2>1, Division
  <2>3. k <= Width => r = k - 1
    <3>1. q = 0 \/ q * Width >= Width
      BY <1>1
    <3> QED BY <1>1, <2>1, <3>1
  <2> QED BY <1>1, <1>2, <1>4, <2>2, <2>3
<1> QED BY <1>3, <1>4

LEMMA TimesRotated ==
    ASSUME NEW v \in Number, NEW c \in {0, 1}, NEW n \in Nat
    PROVE  Times("ROR", n, v, c) = AfterRotated(v, c, n)[n]
<1> DEFINE G == AfterRotated(v, c, n)
           H == Modulus \div 2
<1>1. G = [k \in 0 .. n |-> G[k]] /\ G[0] = Operand(v, c)
  BY DEF AfterRotated
<1>2. ASSUME NEW k \in 1 .. n
      PROVE  G[k] = Operand(Rotated(v, Turned(k) + 1), get_bit(v, Turned(k)))
  BY DEF AfterRotated
<1>3. \A s : OneBit("ROR", s) = Operand((s.operand \div 2) + (s.operand % 2) * H, s.operand % 2)
  BY DEF OneBit
<1> HIDE DEF G
<1>4. ASSUME NEW k \in 1 .. n PROVE G[k] = OneBit("ROR", G[k - 1])
  <2> DEFINE j == Turned(k) + 1
  <2>1. j \in 1 .. Width /\ j - 1 = Turned(k)
    <3>1. k \in Nat /\ k > 0
      OBVIOUS
    <3> QED BY <3>1, TurnedIs, PowFacts
  <2>2. G[k - 1].operand = Rotated(v, j - 1)
    <3>1. CASE k = 1
      <4>1. Turned(1) = 0
        BY TurnedIs, PowFacts
      <4>2. G[k - 1].operand = v
        BY <1>1, <3>1 DEF Operand
      <4> QED BY <2>1, <3>1, <4>1, <4>2, RotatedIs
    <3>2. CASE k # 1
      <4>1. k - 1 \in 1 .. n /\ k - 1 \in Nat /\ k - 1 > 0 /\ (k - 1) + 1 = k
        BY <3>2
      <4>2. G[k - 1] = Operand(Rotated(v, Turned(k - 1) + 1), get_bit(v, Turned(k - 1)))
        BY <1>2, <4>1
      <4>3. G[k - 1].operand = Rotated(v, Turned(k - 1) + 1)
        BY <4>2 DEF Operand
      <4>4. Turned(k) = IF Turned(k - 1) + 1 = Width THEN 0 ELSE Turned(k - 1) + 1
        <5>1. Turned((k - 1) + 1) = IF Turned(k - 1) + 1 = Width THEN 0 ELSE Turned(k - 1) + 1
          BY <4>1, TurnedIs
        <5> QED BY <4>1, <5>1
      <4>5. Rotated(v, 0) = v /\ Rotated(v, Width) = v
        <5>1. 0 \in 0 .. Width
          BY PowFacts
        <5> QED BY <5>1, RotatedIs
      <4>6. Rotated(v, Turned(k - 1) + 1) = Rotated(v, Turned(k))
        BY <4>4, <4>5
      <4> QED BY <2>1, <4>3, <4>6
    <3> QED BY <3>1, <3>2
  <2>3. G[k] = Operand(Rotated(v, j), get_bit(v, j - 1))
    BY <1>2, <2>1
  <2> HIDE DEF j, H
  <2>4. /\ Rotated(v, j - 1) % 2 = get_bit(v, j - 1)
        /\ Rotated(v, j) = (Rotated(v, j - 1) \div 2) + get_bit(v, j - 1) * H
    BY <2>1, RotatedHalves DEF H
  <2> QED BY <1>3, <2>2, <2>3, <2>4
<1>5. Steps(G, "ROR", n, v, c)
  BY <1>1, <1>4 DEF Steps
<1>6. Times("ROR", n, v, c) = G[n]
  BY <1>5, TimesIs
<1> QED BY <1>6 DEF G

(* One rotation through the carry.                                         *)
LEMMA TimesExtended ==
    ASSUME NEW v \in Number, NEW c \in {0, 1}
    PROVE  Times("RRX", 1, v, c) = Operand((v \div 2) + c * (Modulus \div 2), v % 2)
<1> DEFINE G == [k \in 0 .. 1 |-> IF k = 0 THEN Operand(v, c) ELSE OneBit("RRX", Operand(v, c))]
<1>1. Steps(G, "RRX", 1, v, c)
  BY DEF Steps
<1>2. G[1] = OneBit("RRX", Operand(v, c))
  OBVIOUS
<1>3. OneBit("RRX", Operand(v, c)) = Operand((v \div 2) + c * (Modulus \div 2), v % 2)
  BY DEF OneBit, Operand
<1> HIDE DEF G
<1> QED BY <1>1, <1>2, <1>3, TimesIs

(* What the code computes, in those terms.                                 *)
LEMMA CodeShifts ==
    ASSUME NEW v \in Number, NEW n \in 1 .. (Width - 1)
    PROVE  /\ lsl(v, n) = Below(v, Width - n) * Pow(n)
           /\ lsr(v, n) = Above(v, n)
           /\ asr(v, n) = Filled(v, n)
           /\ ror(v, n) = Rotated(v, n)
<1>1. n \in 0 .. Width /\ Width - n \in 0 .. Width /\ Width - (Width - n) = n /\ n # 0
  BY PowFacts
<1>2. lsl(v, n) = Below(v, Width - n) * Pow(n)
  BY <1>1, LslIs
<1>3. lsr(v, n) = Above(v, n)
  BY Zenon DEF lsr, Above, Pow
<1>4. asr(v, n) = Filled(v, n)
  <2>1. asr(v, n) = Above(v, n) + (IF Sign(v) = 1 THEN Modulus - Pow(Width - n) ELSE 0)
    BY <1>3, Zenon DEF asr, Sign, Pow
  <2>2. Sign(v) \in {0, 1} /\ Modulus - Pow(Width - n) \in Int /\ Above(v, n) \in Int
    <3>1. Sign(v) \in {0, 1}
      BY SignIs
    <3>2. Modulus \in Nat /\ Pow(Width - n) \in Nat /\ Above(v, n) \in Nat
      BY <1>1, PowFacts, Split
    <3> QED BY <3>1, <3>2
  <2> QED BY <2>1, <2>2 DEF Filled
<1>5. ror(v, n) = Rotated(v, n)
  <2>1. lsl(v, Width - n) = Below(v, n) * Pow(Width - n)
    BY <1>1, LslIs
  <2> QED BY <1>1, <1>3, <2>1 DEF ror, Rotated
<1> QED BY <1>2, <1>3, <1>4, <1>5

LEMMA SignFillIs ==
    ASSUME NEW v \in Number
    PROVE  SignFill(v) = Operand(Sign(v) * (Modulus - 1), Sign(v))
<1>1. Sign(v) \in {0, 1} /\ Modulus \in Nat
  BY SignIs, PowFacts
<1>2. SignFill(v) = IF Sign(v) = 0 THEN Operand(0, 0) ELSE Operand(Modulus - 1, 1)
  BY DEF SignFill, Sign
<1> HIDE DEF Sign
<1>3. CASE Sign(v) = 0
  BY <1>1, <1>2, <1>3
<1>4. CASE Sign(v) = 1
  BY <1>1, <1>2, <1>4
<1> QED BY <1>1, <1>3, <1>4

(* A shift by the low byte of a register is that many shifts.              *)
LEMMA RegisterShiftsAreIterated ==
    ASSUME NEW v \in Number, NEW c \in {0, 1}, NEW n \in Nat, NEW kind \in Kinds
    PROVE  ByRegister(kind, v, n, c) = Times(kind, n, v, c)
<1>1. /\ Width \in Nat /\ Width > 1 /\ n \in 0 .. n
  BY PowFacts
<1>2. CASE kind = "LSL"
  <2>1. Times(kind, n, v, c) = AfterLeft(v, c, n)[n]
    BY <1>2, TimesLeft
  <2>2. AfterLeft(v, c, n)[n] =
          IF n = 0 THEN Operand(v, c)
          ELSE IF n <= Width THEN Operand(Below(v, Width - n) * Pow(n), get_bit(v, Width - n))
          ELSE Operand(0, 0)
    BY <1>1 DEF AfterLeft
  <2>3. CASE n = 0
    BY <1>1, <1>2, <2>1, <2>2, <2>3 DEF ByRegister
  <2>4. CASE n \in 1 .. (Width - 1)
    <3>1. ByRegister(kind, v, n, c) = Operand(lsl(v, n), get_bit(v, Width - n))
      BY <1>1, <1>2, <2>4 DEF ByRegister
    <3>2. lsl(v, n) = Below(v, Width - n) * Pow(n)
      BY <2>4, CodeShifts
    <3> QED BY <1>1, <2>1, <2>2, <2>4, <3>1, <3>2
  <2>5. CASE n = Width
    <3>1. ByRegister(kind, v, n, c) = Operand(0, get_bit(v, 0))
      BY <1>1, <1>2, <2>5 DEF ByRegister
    <3>2. Width - Width = 0 /\ Below(v, 0) = 0 /\ Pow(Width) \in Nat
      BY <1>1, PowFacts, WholeWord
    <3>3. Below(v, Width - Width) * Pow(Width) = 0
      BY <3>2
    <3> QED BY <1>1, <2>1, <2>2, <2>5, <3>1, <3>2, <3>3
  <2>6. CASE n > Width
    BY <1>1, <1>2, <2>1, <2>2, <2>6 DEF ByRegister
  <2> QED BY <1>1, <2>3, <2>4, <2>5, <2>6
<1>3. CASE kind = "LSR"
  <2>1. Times(kind, n, v, c) = AfterRight(v, c, n)[n]
    BY <1>3, TimesRight
  <2>2. AfterRight(v, c, n)[n] =
          IF n = 0 THEN Operand(v, c)
          ELSE IF n <= Width THEN Operand(Above(v, n), get_bit(v, n - 1))
          ELSE Operand(0, 0)
    BY <1>1 DEF AfterRight
  <2>3. CASE n = 0
    BY <1>1, <1>3, <2>1, <2>2, <2>3 DEF ByRegister
  <2>4. CASE n \in 1 .. (Width - 1)
    <3>1. ByRegister(kind, v, n, c) = Operand(lsr(v, n), get_bit(v, n - 1))
      BY <1>1, <1>3, <2>4 DEF ByRegister
    <3>2. lsr(v, n) = Above(v, n)
      BY <2>4, CodeShifts
    <3> QED BY <1>1, <2>1, <2>2, <2>4, <3>1, <3>2
  <2>5. CASE n = Width
    <3>1. ByRegister(kind, v, n, c) = Operand(0, get_bit(v, Width - 1))
      BY <1>1, <1>3, <2>5 DEF ByRegister
    <3>2. Above(v, Width) = 0
      BY WholeWord
    <3> QED BY <1>1, <2>1, <2>2, <2>5, <3>1, <3>2
  <2>6. CASE n > Width
    BY <1>1, <1>3, <2>1, <2>2, <2>6 DEF ByRegister
  <2> QED BY <1>1, <2>3, <2>4, <2>5, <2>6
<1>4. CASE kind = "ASR"
  <2>1. Times(kind, n, v, c) = AfterSigned(v, c, n)[n]
    BY <1>4, TimesSigned
  <2>2. AfterSigned(v, c, n)[n] =
          IF n = 0 THEN Operand(v, c)
          ELSE IF n <= Width THEN Operand(Filled(v, n), get_bit(v, n - 1))
          ELSE Operand(Sign(v) * (Modulus - 1), Sign(v))
    BY <1>1 DEF AfterSigned
  <2>3. CASE n = 0
    BY <1>1, <1>4, <2>1, <2>2, <2>3 DEF ByRegister
  <2>4. CASE n \in 1 .. (Width - 1)
    <3>1. ByRegister(kind, v, n, c) = Operand(asr(v, n), get_bit(v, n - 1))
      BY <1>1, <1>4, <2>4 DEF ByRegister
    <3>2. asr(v, n) = Filled(v, n)
      BY <2>4, CodeShifts
    <3> QED BY <1>1, <2>1, <2>2, <2>4, <3>1, <3>2
  <2>5. CASE n = Width
    <3>1. ByRegister(kind, v, n, c) = Operand(Sign(v) * (Modulus - 1), Sign(v))
      BY <1>1, <1>4, <2>5, SignFillIs DEF ByRegister
    <3>2. Filled(v, Width) = Sign(v) * (Modulus - 1) /\ get_bit(v, Width - 1) = Sign(v)
      <4>1. Width - Width = 0 /\ Pow(0) = 1 /\ Sign(v) \in {0, 1} /\ Modulus \in Nat
        BY SignIs, PowFacts
      <4> QED BY <4>1, WholeWord DEF Filled, Sign
    <3> QED BY <1>1, <2>1, <2>2, <2>5, <3>1, <3>2
  <2>6. CASE n > Width
    <3>1. ByRegister(kind, v, n, c) = Operand(Sign(v) * (Modulus - 1), Sign(v))
      BY <1>1, <1>4, <2>6, SignFillIs DEF ByRegister
    <3> QED BY <1>1, <2>1, <2>2, <2>6, <3>1
  <2> QED BY <1>1, <2>3, <2>4, <2>5, <2>6
<1>5. CASE kind = "ROR"
  <2>1. Times(kind, n, v, c) = AfterRotated(v, c, n)[n]
    BY <1>5, TimesRotated
  <2>2. AfterRotated(v, c, n)[n] =
          IF n = 0 THEN Operand(v, c)
          ELSE Operand(Rotated(v, Turned(n) + 1), get_bit(v, Turned(n)))
    BY <1>1 DEF AfterRotated
  <2>3. CASE n = 0
    BY <1>1, <1>5, <2>1, <2>2, <2>3 DEF ByRegister
  <2>4. CASE n > 0
    <3> DEFINE k == n % Width
    <3>1. ByRegister(kind, v, n, c) =
            IF k = 0 THEN Operand(v, get_bit(v, Width - 1))
                     ELSE Operand(ror(v, k), get_bit(v, k - 1))
      BY <1>1, <1>5, <2>4 DEF ByRegister
    <3>2. Turned(n) + 1 = IF k = 0 THEN Width ELSE k
      BY <2>4, TurnedIs
    <3>3. Turned(n) \in 0 .. (Width - 1) /\ k \in 0 .. (Width - 1)
      <4>1. k \in 0 .. (Width - 1)
        BY <1>1
      <4> QED BY <2>4, <4>1, TurnedIs
    <3> HIDE DEF k
    <3>4. CASE k = 0
      <4>1. Turned(n) = Width - 1 /\ Width \in 0 .. Width /\ Turned(n) + 1 = Width
        BY <1>1, <3>2, <3>3, <3>4
      <4>2. Rotated(v, Width) = v
        BY <4>1, RotatedIs
      <4>3. ByRegister(kind, v, n, c) = Operand(v, get_bit(v, Width - 1))
        BY <3>1, <3>4
      <4> QED BY <2>1, <2>2, <2>4, <4>1, <4>2, <4>3
    <3>5. CASE k # 0
      <4>1. Turned(n) = k - 1 /\ k \in 1 .. (Width - 1) /\ Turned(n) + 1 = k
        BY <1>1, <3>2, <3>3, <3>5
      <4>2. ror(v, k) = Rotated(v, k)
        BY <4>1, CodeShifts
      <4>3. ByRegister(kind, v, n, c) = Operand(ror(v, k), get_bit(v, k - 1))
        BY <3>1, <3>5
      <4> QED BY <2>1, <2>2, <2>4, <4>1, <4>2, <4>3
    <3> QED BY <3>4, <3>5
  <2> QED BY <2>3, <2>4
<1> QED BY <1>2, <1>3, <1>4, <1>5 DEF Kinds

(* By an amount in the instruction, where zero stands for something else.  *)
MeantBy(kind, n) ==
    CASE n > 0 \/ kind = "LSL" -> <<kind, n>>
      [] n = 0 /\ kind = "ROR" -> <<"RRX", 1>>
      [] n = 0 /\ kind \in {"LSR", "ASR"} -> <<kind, Width>>

LEMMA ExtendedIs ==
    ASSUME NEW v \in Number, NEW c \in {0, 1}
    PROVE  Operand(c * 2 ^ (Width - 1) + lsr(v, 1), get_bit(v, 0)) = Times("RRX", 1, v, c)
<1>1. 0 \in 0 .. Width /\ 1 \in 1 .. Width /\ 1 - 1 = 0 /\ Pow(1) = 2 * Pow(0) /\ Pow(0) = 1
      /\ v \in Nat
  <2>1. 0 \in 0 .. Width /\ 1 \in 1 .. Width /\ 1 - 1 = 0 /\ v \in Nat
    BY PowFacts DEF Number
  <2> QED BY <2>1, PowFacts
<1>2. lsr(v, 1) = v \div 2
  <2>1. lsr(v, 1) = v \div Pow(1)
    BY Zenon DEF lsr, Pow
  <2> QED BY <1>1, <2>1
<1>3. get_bit(v, 0) = v % 2
  <2>1. get_bit(v, 1 - 1) = Above(v, 1 - 1) % 2
    BY <1>1, Bit
  <2> QED BY <1>1, <2>1, WholeWord
<1>4. c * 2 ^ (Width - 1) + lsr(v, 1) = (v \div 2) + c * (Modulus \div 2)
  <2> DEFINE H == Pow(Width - 1)
  <2>1. c * 2 ^ (Width - 1) + lsr(v, 1) = c * H + lsr(v, 1)
    BY Zenon DEF Pow
  <2>2. Modulus \div 2 = H /\ H \in Nat
    <3>1. Width - 1 \in 0 .. Width
      BY PowFacts
    <3> QED BY <3>1, SignIs, PowFacts
  <2> HIDE DEF H
  <2>3. c * H \in Nat /\ v \div 2 \in Int
    BY <1>1, <2>2
  <2> QED BY <1>2, <2>1, <2>2, <2>3
<1> QED BY <1>3, <1>4, TimesExtended

LEMMA ImmediateShiftsAreIterated ==
    ASSUME NEW v \in Number, NEW c \in {0, 1}, NEW n \in Immediate, NEW kind \in Kinds
    PROVE  /\ ByImmediate(kind, v, n, c) = Times(MeantBy(kind, n)[1], MeantBy(kind, n)[2], v, c)
           /\ shift_operation(kind, v, n, c) = ByImmediate(kind, v, n, c).operand
<1>1. /\ Width \in Nat /\ Width > 1 /\ n \in Nat /\ n < Width
  BY PowFacts DEF Immediate
<1>2. CASE n > 0
  <2>1. ByImmediate(kind, v, n, c) = ByRegister(kind, v, n, c)
    <3>1. n \in 1 .. (Width - 1) /\ n # 0
      BY <1>1, <1>2
    <3> QED BY <1>1, <1>2, <3>1 DEF ByImmediate, ByRegister, Kinds
  <2>2. MeantBy(kind, n)[1] = kind /\ MeantBy(kind, n)[2] = n
    BY <1>2 DEF MeantBy
  <2>3. ByImmediate(kind, v, n, c) = Times(kind, n, v, c)
    BY <1>1, <2>1, RegisterShiftsAreIterated
  <2>4. shift_operation(kind, v, n, c) = ByImmediate(kind, v, n, c).operand
    BY <1>1, <1>2 DEF shift_operation, ByImmediate, Operand, Kinds
  <2> QED BY <2>2, <2>3, <2>4
<1>3. CASE n = 0 /\ kind = "LSL"
  <2>1. ByImmediate(kind, v, n, c) = Operand(v, c)
    BY <1>1, <1>3 DEF ByImmediate
  <2>2. ByRegister(kind, v, n, c) = Operand(v, c)
    BY <1>1, <1>3 DEF ByRegister
  <2>3. ByRegister(kind, v, n, c) = Times(kind, n, v, c)
    BY <1>1, RegisterShiftsAreIterated
  <2>4. MeantBy(kind, n)[1] = kind /\ MeantBy(kind, n)[2] = n
    BY <1>3 DEF MeantBy
  <2>5. lsl(v, 0) = v
    <3>1. 0 \in 0 .. Width /\ Width - 0 = Width
      BY <1>1
    <3>2. lsl(v, 0) = Below(v, Width - 0) * Pow(0) /\ v \in Nat
      BY <3>1, LslIs DEF Number
    <3>3. Below(v, Width) = v /\ Pow(0) = 1
      BY WholeWord, PowFacts
    <3> QED BY <3>1, <3>2, <3>3
  <2>6. shift_operation(kind, v, n, c) = lsl(v, 0)
    BY <1>3 DEF shift_operation
  <2> QED BY <2>1, <2>2, <2>3, <2>4, <2>5, <2>6 DEF Operand
<1>4. CASE n = 0 /\ kind = "LSR"
  <2>1. ByImmediate(kind, v, n, c) = Operand(0, get_bit(v, Width - 1))
    BY <1>1, <1>4 DEF ByImmediate
  <2>2. ByRegister(kind, v, Width, c) = Operand(0, get_bit(v, Width - 1))
    BY <1>1, <1>4 DEF ByRegister
  <2>3. ByRegister(kind, v, Width, c) = Times(kind, Width, v, c)
    BY <1>1, RegisterShiftsAreIterated
  <2>4. MeantBy(kind, n)[1] = kind /\ MeantBy(kind, n)[2] = Width
    BY <1>4 DEF MeantBy
  <2>5. shift_operation(kind, v, n, c) = 0
    BY <1>4 DEF shift_operation
  <2> QED BY <2>1, <2>2, <2>3, <2>4, <2>5 DEF Operand
<1>5. CASE n = 0 /\ kind = "ASR"
  <2>1. ByImmediate(kind, v, n, c) = SignFill(v)
    BY <1>1, <1>5 DEF ByImmediate
  <2>2. ByRegister(kind, v, Width, c) = SignFill(v)
    BY <1>1, <1>5 DEF ByRegister
  <2>3. ByRegister(kind, v, Width, c) = Times(kind, Width, v, c)
    BY <1>1, RegisterShiftsAreIterated
  <2>4. MeantBy(kind, n)[1] = kind /\ MeantBy(kind, n)[2] = Width
    BY <1>5 DEF MeantBy
  <2> DEFINE x == Sign(v) * (Modulus - 1)
  <2>5. shift_operation(kind, v, n, c) = x
    BY <1>5 DEF shift_operation, Sign
  <2>6. SignFill(v) = Operand(x, Sign(v))
    BY SignFillIs
  <2> HIDE DEF x
  <2>7. ByImmediate(kind, v, n, c).operand = x
    BY <2>1, <2>6 DEF Operand
  <2> QED BY <2>1, <2>2, <2>3, <2>4, <2>5, <2>7
<1>6. CASE n = 0 /\ kind = "ROR"
  <2> DEFINE x == c * 2 ^ (Width - 1) + lsr(v, 1)
  <2>1. ByImmediate(kind, v, n, c) = Operand(x, get_bit(v, 0))
    BY <1>1, <1>6 DEF ByImmediate
  <2>2. Operand(x, get_bit(v, 0)) = Times("RRX", 1, v, c)
    BY ExtendedIs
  <2>3. MeantBy(kind, n)[1] = "RRX" /\ MeantBy(kind, n)[2] = 1
    BY <1>6 DEF MeantBy
  <2>4. shift_operation(kind, v, n, c) = x
    BY <1>6 DEF shift_operation
  <2> HIDE DEF x
  <2> QED BY <2>1, <2>2, <2>3, <2>4 DEF Operand
<1> QED BY <1>1, <1>2, <1>3, <1>4, <1>5, <1>6 DEF Kinds

(* A byte, rotated by twice the field.                                     *)
LEMMA BytesAreRotated ==
    ASSUME NEW byte \in ImmediateByte, NEW half \in 0 .. (Width \div 2 - 1), NEW c \in {0, 1}
    PROVE  /\ byte \in Number
           /\ RotatedByte(byte, half, c) = Times("ROR", 2 * half, byte, c)
<1> DEFINE n == 2 * half
           operand == ror(byte, n)
<1>1. /\ n \in 0 .. (Width - 1) /\ half \in Nat /\ n \in Nat /\ (n = 0 <=> half = 0)
      /\ Width \div 4 \in 0 .. Width
  BY PowFacts
<1>2. byte \in Number
  <2>1. byte \in 0 .. (Pow(Width \div 4) - 1)
    BY Zenon DEF ImmediateByte, Pow
  <2>2. Width \in 0 .. Width /\ Width \div 4 \in 0 .. Width
    BY <1>1, PowFacts
  <2>3. Pow(Width \div 4) <= Pow(Width) /\ Pow(Width \div 4) \in Nat /\ Modulus = Pow(Width)
        /\ Modulus \in Nat
    BY <2>2, PowGrows, PowFacts
  <2> QED BY <2>1, <2>3 DEF Number
<1>3. RotatedByte(byte, half, c)
        = Operand(operand, IF half = 0 THEN c ELSE get_bit(operand, Width - 1))
  BY DEF RotatedByte
<1>4. "ROR" \in Kinds /\ ByRegister("ROR", byte, n, c) = Times("ROR", n, byte, c)
  <2>1. "ROR" \in Kinds
    BY DEF Kinds
  <2> QED BY <1>1, <1>2, <2>1, RegisterShiftsAreIterated
<1>5. CASE half = 0
  <2>1. n = 0 /\ operand = byte
    BY <1>1, <1>5 DEF ror
  <2>2. ByRegister("ROR", byte, n, c) = Operand(byte, c)
    BY <2>1 DEF ByRegister
  <2> HIDE DEF n, operand
  <2>3. RotatedByte(byte, half, c) = Operand(byte, c)
    BY <1>3, <1>5, <2>1
  <2>4. RotatedByte(byte, half, c) = Times("ROR", n, byte, c)
    BY <1>4, <2>2, <2>3
  <2> QED BY <1>2, <2>4 DEF n
<1>6. CASE half # 0
  <2>1. n \in 1 .. (Width - 1) /\ n \in 1 .. Width /\ n % Width = n /\ n # 0
        /\ n - 1 \in 0 .. Width /\ n \in 0 .. Width
    <3> HIDE DEF n
    <3> QED BY <1>1, <1>6, PowFacts
  <2>2. ByRegister("ROR", byte, n, c) = Operand(ror(byte, n), get_bit(byte, n - 1))
    <3> HIDE DEF n
    <3>1. /\ n > 0 /\ n # Width /\ ~(n > Width) /\ ~(n >= Width) /\ Width \in Nat
      BY <2>1, PowFacts
    <3> QED BY <2>1, <3>1 DEF ByRegister
  <2> HIDE DEF n
  <2>3. operand = Rotated(byte, n) /\ operand \in Number
    BY <1>2, <2>1, CodeShifts, RotatedIs
  <2>4. get_bit(operand, Width - 1) = get_bit(byte, n - 1)
    <3> DEFINE x == Rotated(byte, n - 1)
               b == get_bit(byte, n - 1)
               H == Pow(Width - 1)
    <3>1. Rotated(byte, n) = (x \div 2) + b * (Modulus \div 2) /\ b \in {0, 1}
      BY <1>2, <2>1, RotatedHalves, Bit
    <3>2. x \in Nat /\ x < Modulus
      <4>1. x \in Number
        BY <1>2, <2>1, RotatedIs
      <4> QED BY <4>1, PowFacts DEF Number
    <3>3. /\ Modulus = 2 * H /\ Modulus \div 2 = H /\ H \in Nat /\ H > 0
          /\ (Sign(operand) = 1 <=> operand >= H) /\ Sign(operand) \in {0, 1}
      <4>1. Width - 1 \in 0 .. Width
        BY PowFacts
      <4> QED BY <2>3, <4>1, SignIs, PowFacts
    <3>4. operand = (x \div 2) + b * H /\ x \div 2 \in 0 .. (H - 1)
      <4> HIDE DEF x, H, b
      <4> QED BY <2>3, <3>1, <3>2, <3>3
    <3>5. Sign(operand) = b
      <4> HIDE DEF x, H, b
      <4>1. CASE b = 0
        BY <3>3, <3>4, <4>1
      <4>2. CASE b = 1
        BY <3>3, <3>4, <4>2
      <4> QED BY <3>1, <4>1, <4>2
    <3> QED BY <3>5 DEF Sign
  <2>5. RotatedByte(byte, half, c) = Operand(operand, get_bit(operand, Width - 1))
    <3> HIDE DEF operand
    <3> QED BY <1>3, <1>6
  <2>6. RotatedByte(byte, half, c) = Times("ROR", n, byte, c)
    BY <1>4, <2>2, <2>4, <2>5
  <2> QED BY <1>2, <2>6 DEF n
<1> QED BY <1>5, <1>6

(* What the shifter and shift_operation have made of the fields.           *)
ShiftedAsCoded ==
    stage = "decoded" =>
        /\ fields \in ShiftInstructions /\ ~NamesPc(fields)
        /\ shifter = Shifted(fields)
        /\ fields.form = "immediate" /\ fields.r15 = "none" =>
              index = shift_operation(fields.kind, fields.value, fields.amount, fields.C)

LEMMA ShiftFields ==
    ASSUME NEW i \in ShiftInstructions
    PROVE  /\ i.form \in {"immediate", "register", "rotated"} /\ i.C \in {0, 1}
           /\ i.form = "immediate" => i.kind \in Kinds /\ i.amount \in Immediate
           /\ i.form = "register" => i.kind \in Kinds /\ i.amount \in Nat
           /\ i.form = "rotated" => i.value \in ImmediateByte /\ i.amount \in 0 .. (Width \div 2 - 1)
           /\ i.form # "rotated" => Rm_value(i) \in Number
<1>1. CASE i.form = "immediate"
  <2>1. /\ i.kind \in Kinds /\ i.amount \in Immediate /\ i.value \in ShiftedValues
        /\ i.own \in OwnAddresses /\ i.C \in {0, 1}
    BY <1>1 DEF ShiftInstructions
  <2>2. i.value \in Number /\ i.own \in Nat /\ i.own + 12 < Modulus
    BY <2>1, ShifterAssumption
  <2>3. i.own + 8 + 4 \in Number
    BY <2>2, PowFacts DEF Number
  <2> QED BY <1>1, <2>1, <2>2, <2>3 DEF Rm_value, PcRead
<1>2. CASE i.form = "register"
  <2>1. /\ i.kind \in Kinds /\ i.amount \in LowByte /\ i.value \in ShiftedValues /\ i.C \in {0, 1}
    BY <1>2 DEF ShiftInstructions
  <2>2. i.value \in Number /\ i.amount \in Nat
    BY <2>1, ShifterAssumption DEF LowByte
  <2> QED BY <1>2, <2>1, <2>2 DEF Rm_value
<1>3. CASE i.form = "rotated"
  BY <1>3 DEF ShiftInstructions
<1>4. i.form \in {"immediate", "register", "rotated"}
  BY DEF ShiftInstructions
<1> QED BY <1>1, <1>2, <1>3, <1>4

LEMMA ShiftedIsIterated ==
    ASSUME NEW i \in ShiftInstructions, ~NamesPc(i)
    PROVE  /\ Shifted(i) = Times(Meant(i)[1], Distance(i), Rm_value(i), i.C)
           /\ i.form = "immediate" /\ i.r15 = "none" =>
                 shift_operation(i.kind, i.value, i.amount, i.C) = Shifted(i).operand
<1>1. CASE i.form = "immediate"
  <2>1. i.kind \in Kinds /\ i.amount \in Immediate /\ Rm_value(i) \in Number /\ i.C \in {0, 1}
    BY <1>1, ShiftFields
  <2>2. Shifted(i) = ByImmediate(i.kind, Rm_value(i), i.amount, i.C)
    BY <1>1 DEF Shifted
  <2>3. Meant(i) = MeantBy(i.kind, i.amount) /\ Distance(i) = Meant(i)[2]
    <3>1. i.amount \in Nat
      BY <2>1, PowFacts DEF Immediate
    <3>2. CASE i.amount > 0 \/ i.kind = "LSL"
      BY <1>1, <3>1, <3>2 DEF Meant, MeantBy, Distance
    <3>3. CASE i.amount = 0 /\ i.kind = "ROR"
      BY <1>1, <3>1, <3>3 DEF Meant, MeantBy, Distance
    <3>4. CASE i.amount = 0 /\ i.kind = "LSR"
      BY <1>1, <3>1, <3>4 DEF Meant, MeantBy, Distance
    <3>5. CASE i.amount = 0 /\ i.kind = "ASR"
      BY <1>1, <3>1, <3>5 DEF Meant, MeantBy, Distance
    <3> QED BY <2>1, <3>1, <3>2, <3>3, <3>4, <3>5 DEF Kinds
  <2>4. i.r15 = "none" => Rm_value(i) = i.value
    BY <1>1 DEF Rm_value
  <2> QED BY <2>1, <2>2, <2>3, <2>4, ImmediateShiftsAreIterated
<1>2. CASE i.form = "register"
  <2>1. i.kind \in Kinds /\ i.amount \in Nat /\ Rm_value(i) \in Number /\ i.C \in {0, 1}
    BY <1>2, ShiftFields
  <2>2. Shifted(i) = ByRegister(i.kind, Rm_value(i), i.amount, i.C)
    BY <1>2 DEF Shifted, Rm_value
  <2>3. Meant(i)[1] = i.kind /\ Distance(i) = i.amount
    BY <1>2 DEF Meant, Distance
  <2> QED BY <1>2, <2>1, <2>2, <2>3, RegisterShiftsAreIterated
<1>3. CASE i.form = "rotated"
  <2>1. i.value \in ImmediateByte /\ i.amount \in 0 .. (Width \div 2 - 1) /\ i.C \in {0, 1}
    BY <1>3, ShiftFields
  <2>2. Shifted(i) = RotatedByte(i.value, i.amount, i.C) /\ Rm_value(i) = i.value
    BY <1>3 DEF Shifted, Rm_value
  <2>3. Meant(i)[1] = "ROR" /\ Distance(i) = 2 * i.amount
    <3>1. i.kind = "ROR" /\ i.amount \in Nat
      BY <1>3, PowFacts DEF ShiftInstructions
    <3>2. CASE i.amount > 0
      BY <1>3, <3>1, <3>2 DEF Meant, Distance
    <3>3. CASE i.amount = 0
      BY <1>3, <3>1, <3>3 DEF Meant, Distance
    <3> QED BY <3>1, <3>2, <3>3
  <2> QED BY <1>3, <2>1, <2>2, <2>3, BytesAreRotated
<1> QED BY <1>1, <1>2, <1>3, ShiftFields

(* Shifts of words are words.                                              *)
Whole(s) == s.operand \in Number /\ s.carry \in {0, 1}

LEMMA BitOf ==
    ASSUME NEW v \in Number, NEW k \in 0 .. (Width - 1)
    PROVE  get_bit(v, k) \in {0, 1}
<1>1. k + 1 \in 1 .. Width /\ (k + 1) - 1 = k
  BY PowFacts
<1>2. get_bit(v, (k + 1) - 1) \in {0, 1}
  BY <1>1, Bit
<1> QED BY <1>1, <1>2

LEMMA TimesAreWords ==
    ASSUME NEW v \in Number, NEW c \in {0, 1}, NEW n \in Nat, NEW kind \in Kinds
    PROVE  Whole(Times(kind, n, v, c))
<1>1. n \in 0 .. n /\ (n > 0 /\ n <= Width => n \in 1 .. Width /\ n - 1 \in 0 .. (Width - 1)
                                               /\ Width - n \in 0 .. (Width - 1))
      /\ 0 \in Number /\ Modulus - 1 \in Number
  BY PowFacts DEF Number
<1>2. \A x \in Number : \A b \in {0, 1} : Whole(Operand(x, b))
  BY DEF Whole, Operand
<1>3. n > 0 /\ n <= Width => get_bit(v, n - 1) \in {0, 1} /\ get_bit(v, Width - n) \in {0, 1}
  BY <1>1, BitOf
<1>4. CASE kind = "LSL"
  <2>1. n > 0 /\ n <= Width => Below(v, Width - n) * Pow(n) \in Number
    BY <1>1, Doubling
  <2>2. AfterLeft(v, c, n)[n] =
          IF n = 0 THEN Operand(v, c)
          ELSE IF n <= Width THEN Operand(Below(v, Width - n) * Pow(n), get_bit(v, Width - n))
          ELSE Operand(0, 0)
    BY <1>1 DEF AfterLeft
  <2> DEFINE x == Below(v, Width - n) * Pow(n)
  <2> HIDE DEF x
  <2>3. CASE n = 0
    BY <1>2, <1>4, <2>2, <2>3, TimesLeft
  <2>4. CASE n > 0 /\ n <= Width
    BY <1>2, <1>3, <1>4, <2>1, <2>2, <2>4, TimesLeft DEF x
  <2>5. CASE n > Width
    <3>1. ~(n <= Width) /\ n # 0
      BY <2>5, PowFacts
    <3> QED BY <1>1, <1>2, <1>4, <2>2, <3>1, TimesLeft
  <2> QED BY <2>3, <2>4, <2>5, PowFacts
<1>5. CASE kind = "LSR"
  <2>1. n > 0 /\ n <= Width => Above(v, n) \in Number
    <3> SUFFICES ASSUME n > 0, n <= Width PROVE Above(v, n) \in Number
      OBVIOUS
    <3>1. n \in 0 .. Width /\ Width - n \in 0 .. Width /\ Width \in 0 .. Width
      BY PowFacts
    <3>2. Above(v, n) \in Nat /\ Above(v, n) < Pow(Width - n)
      BY <3>1, Split
    <3>3. Pow(Width - n) <= Pow(Width) /\ Pow(Width - n) \in Nat /\ Modulus = Pow(Width)
      BY <3>1, PowGrows, PowFacts
    <3> QED BY <3>2, <3>3, PowFacts DEF Number
  <2>2. AfterRight(v, c, n)[n] =
          IF n = 0 THEN Operand(v, c)
          ELSE IF n <= Width THEN Operand(Above(v, n), get_bit(v, n - 1))
          ELSE Operand(0, 0)
    BY <1>1 DEF AfterRight
  <2>3. CASE n = 0
    BY <1>2, <1>5, <2>2, <2>3, TimesRight
  <2>4. CASE n > 0 /\ n <= Width
    BY <1>2, <1>3, <1>5, <2>1, <2>2, <2>4, TimesRight
  <2>5. CASE n > Width
    <3>1. ~(n <= Width) /\ n # 0
      BY <2>5, PowFacts
    <3> QED BY <1>1, <1>2, <1>5, <2>2, <3>1, TimesRight
  <2> QED BY <2>3, <2>4, <2>5, PowFacts
<1>6. CASE kind = "ASR"
  <2>1. Sign(v) \in {0, 1} /\ Sign(v) * (Modulus - 1) \in Number
    <3>1. Sign(v) \in {0, 1}
      BY SignIs
    <3>2. 0 * (Modulus - 1) = 0 /\ 1 * (Modulus - 1) = Modulus - 1
      BY PowFacts
    <3> QED BY <1>1, <3>1, <3>2
  <2>2. n > 0 /\ n < Width => Filled(v, n) \in Number
    <3> SUFFICES ASSUME n > 0, n < Width PROVE Filled(v, n) \in Number
      OBVIOUS
    <3>1. n + 1 \in 1 .. Width /\ (n + 1) - 1 = n
      BY PowFacts
    <3>2. Filled(v, (n + 1) - 1) \in Number
      BY <3>1, FilledHalves
    <3> QED BY <3>1, <3>2
  <2>3. AfterSigned(v, c, n)[n] =
          IF n = 0 THEN Operand(v, c)
          ELSE IF n <= Width THEN Operand(Filled(v, n), get_bit(v, n - 1))
          ELSE Operand(Sign(v) * (Modulus - 1), Sign(v))
    BY <1>1 DEF AfterSigned
  <2>4. CASE n = 0
    BY <1>2, <1>6, <2>3, <2>4, TimesSigned
  <2>5. CASE n > 0 /\ n < Width
    <3>1. n <= Width /\ n # 0
      BY <2>5, PowFacts
    <3> QED BY <1>2, <1>3, <1>6, <2>2, <2>3, <2>5, <3>1, TimesSigned
  <2>6. CASE n >= Width
    <3>1. ByRegister("ASR", v, n, c) = Operand(Sign(v) * (Modulus - 1), Sign(v))
      BY <2>6, SignFillIs, PowFacts DEF ByRegister
    <3>2. ByRegister(kind, v, n, c) = Times(kind, n, v, c)
      BY RegisterShiftsAreIterated
    <3> QED BY <1>2, <1>6, <2>1, <3>1, <3>2
  <2> QED BY <2>4, <2>5, <2>6, PowFacts
<1>7. CASE kind = "ROR"
  <2>1. AfterRotated(v, c, n)[n] =
          IF n = 0 THEN Operand(v, c)
          ELSE Operand(Rotated(v, Turned(n) + 1), get_bit(v, Turned(n)))
    BY <1>1 DEF AfterRotated
  <2>2. CASE n = 0
    BY <1>2, <1>7, <2>1, <2>2, TimesRotated
  <2>3. CASE n > 0
    <3>1. Turned(n) \in 0 .. (Width - 1)
      BY <2>3, TurnedIs
    <3>2. Turned(n) + 1 \in 0 .. Width
      BY <3>1, PowFacts
    <3>3. Rotated(v, Turned(n) + 1) \in Number /\ get_bit(v, Turned(n)) \in {0, 1}
      BY <3>1, <3>2, RotatedIs, BitOf
    <3> QED BY <1>2, <1>7, <2>1, <2>3, <3>3, TimesRotated
  <2> QED BY <2>2, <2>3
<1> QED BY <1>4, <1>5, <1>6, <1>7 DEF Kinds

LEMMA ExtendedAreWords ==
    ASSUME NEW v \in Number, NEW c \in {0, 1}
    PROVE  Whole(Times("RRX", 1, v, c))
<1> DEFINE H == Pow(Width - 1)
<1>1. Modulus = 2 * H /\ Modulus \div 2 = H /\ H \in Nat /\ v \in Nat /\ v < Modulus
  <2>1. Width - 1 \in 0 .. Width /\ v \in Nat /\ v < Modulus
    BY PowFacts DEF Number
  <2> QED BY <2>1, SignIs, PowFacts
<1> HIDE DEF H
<1>2. v \div 2 \in 0 .. (H - 1) /\ v % 2 \in {0, 1}
  BY <1>1
<1>3. (v \div 2) + c * H \in Number
  <2>1. CASE c = 0
    BY <1>1, <1>2, <2>1 DEF Number
  <2>2. CASE c = 1
    BY <1>1, <1>2, <2>2 DEF Number
  <2> QED BY <2>1, <2>2
<1>4. Times("RRX", 1, v, c) = Operand((v \div 2) + c * H, v % 2)
  BY <1>1, TimesExtended
<1> QED BY <1>2, <1>3, <1>4 DEF Whole, Operand

LEMMA ShiftedAreWords ==
    ASSUME NEW i \in ShiftInstructions, ~NamesPc(i)
    PROVE  Whole(Shifted(i)) /\ Shifted(i) = Operand(Shifted(i).operand, Shifted(i).carry)
<1> DEFINE kind == Meant(i)[1]
           n == Distance(i)
           v == Rm_value(i)
<1>1. Shifted(i) = Times(kind, n, v, i.C)
  BY ShiftedIsIterated
<1>2. v \in Number /\ i.C \in {0, 1}
  <2>1. i.form = "rotated" => Rm_value(i) = i.value /\ i.value \in ImmediateByte /\ 0 \in {0, 1}
                              /\ 0 \in 0 .. (Width \div 2 - 1)
    BY ShiftFields, PowFacts DEF Rm_value
  <2> QED BY <2>1, ShiftFields, BytesAreRotated
<1>3. (kind = "RRX" /\ n = 1) \/ (kind \in Kinds /\ n \in Nat)
  <2>1. CASE i.form = "immediate"
    <3>1. i.kind \in Kinds /\ i.amount \in Nat
      BY <2>1, ShiftFields, PowFacts DEF Immediate
    <3>2. CASE i.amount > 0 \/ i.kind = "LSL"
      BY <2>1, <3>1, <3>2 DEF Meant, Distance
    <3>3. CASE i.amount = 0 /\ i.kind = "ROR"
      BY <2>1, <3>1, <3>3 DEF Meant, Distance
    <3>4. CASE i.amount = 0 /\ i.kind = "LSR"
      BY <2>1, <3>1, <3>4, PowFacts DEF Meant, Distance
    <3>5. CASE i.amount = 0 /\ i.kind = "ASR"
      BY <2>1, <3>1, <3>5, PowFacts DEF Meant, Distance
    <3> QED BY <3>1, <3>2, <3>3, <3>4, <3>5 DEF Kinds
  <2>2. CASE i.form = "register"
    BY <2>2, ShiftFields DEF Meant, Distance
  <2>3. CASE i.form = "rotated"
    <3>1. i.kind = "ROR" /\ i.amount \in Nat /\ "ROR" \in Kinds
      BY <2>3, PowFacts DEF ShiftInstructions, Kinds
    <3>2. CASE i.amount > 0
      BY <2>3, <3>1, <3>2 DEF Meant, Distance
    <3>3. CASE i.amount = 0
      BY <2>3, <3>1, <3>3 DEF Meant, Distance
    <3> QED BY <3>1, <3>2, <3>3
  <2> QED BY <2>1, <2>2, <2>3, ShiftFields
<1> HIDE DEF kind, n, v
<1>4. Whole(Shifted(i))
  BY <1>1, <1>2, <1>3, TimesAreWords, ExtendedAreWords
<1>5. \E x, b : Shifted(i) = Operand(x, b)
  <2>1. CASE i.form = "immediate"
    <3>1. i.kind \in Kinds /\ i.amount \in Nat
      BY <2>1, ShiftFields, PowFacts DEF Immediate
    <3>2. \A kd \in Kinds : \A y : \E x, b : ByImmediate(kd, y, i.amount, i.C) = Operand(x, b)
      <4>1. CASE i.amount = 0
        BY <4>1 DEF ByImmediate, SignFill, Kinds
      <4>2. CASE i.amount > 0
        BY <4>2 DEF ByImmediate, Kinds
      <4> QED BY <3>1, <4>1, <4>2
    <3> QED BY <2>1, <3>1, <3>2 DEF Shifted
  <2>2. CASE i.form = "register"
    <3> DEFINE d == i.amount
               y == i.value
    <3>1. Shifted(i) = ByRegister(i.kind, y, d, i.C) /\ i.kind \in Kinds /\ d \in Nat
      BY <2>2, ShiftFields DEF Shifted
    <3>2. Width \in Nat /\ Width > 1
      BY PowFacts
    <3> HIDE DEF d, y
    <3>3. CASE d = 0
      <4>1. ByRegister(i.kind, y, d, i.C) = Operand(y, i.C)
        <5>1. 0 \notin 1 .. (Width - 1) /\ ~(0 = Width) /\ ~(0 > Width) /\ ~(0 >= Width) /\ ~(0 > 0)
          BY <3>2
        <5> QED BY <3>3, <5>1 DEF ByRegister
      <4> QED BY <3>1, <4>1
    <3>4. CASE d > 0 /\ i.kind = "LSL"
      <4>1. d \in 1 .. (Width - 1) \/ d = Width \/ d > Width
        BY <3>1, <3>2, <3>4
      <4>2. CASE d \in 1 .. (Width - 1)
        BY <3>1, <3>2, <3>4, <4>2 DEF ByRegister
      <4>3. CASE d = Width
        BY <3>1, <3>2, <3>4, <4>3 DEF ByRegister
      <4>4. CASE d > Width
        BY <3>1, <3>2, <3>4, <4>4 DEF ByRegister
      <4> QED BY <4>1, <4>2, <4>3, <4>4
    <3>5. CASE d > 0 /\ i.kind = "LSR"
      <4>1. d \in 1 .. (Width - 1) \/ d = Width \/ d > Width
        BY <3>1, <3>2, <3>5
      <4>2. CASE d \in 1 .. (Width - 1)
        BY <3>1, <3>2, <3>5, <4>2 DEF ByRegister
      <4>3. CASE d = Width
        BY <3>1, <3>2, <3>5, <4>3 DEF ByRegister
      <4>4. CASE d > Width
        BY <3>1, <3>2, <3>5, <4>4 DEF ByRegister
      <4> QED BY <4>1, <4>2, <4>3, <4>4
    <3>6. CASE d > 0 /\ i.kind = "ASR"
      <4>1. d \in 1 .. (Width - 1) \/ d >= Width
        BY <3>1, <3>2, <3>6
      <4>2. CASE d \in 1 .. (Width - 1)
        BY <3>1, <3>2, <3>6, <4>2 DEF ByRegister
      <4>3. CASE d >= Width
        BY <3>1, <3>2, <3>6, <4>3 DEF ByRegister, SignFill
      <4> QED BY <4>1, <4>2, <4>3
    <3>7. CASE d > 0 /\ i.kind = "ROR"
      <4> DEFINE k == d % Width
      <4>1. ByRegister(i.kind, y, d, i.C) =
              IF k = 0 THEN Operand(y, get_bit(y, Width - 1))
                       ELSE Operand(ror(y, k), get_bit(y, k - 1))
        BY <3>1, <3>2, <3>7 DEF ByRegister
      <4> HIDE DEF k
      <4> QED BY <3>1, <4>1
    <3> QED BY <3>1, <3>3, <3>4, <3>5, <3>6, <3>7 DEF Kinds
  <2>3. CASE i.form = "rotated"
    BY <2>3 DEF Shifted, RotatedByte
  <2> QED BY <2>1, <2>2, <2>3, ShiftFields
<1>6. Shifted(i) = Operand(Shifted(i).operand, Shifted(i).carry)
  BY <1>5 DEF Operand
<1> QED BY <1>4, <1>6

(* Every form of the second operand, at every amount, is that many shifts  *)
(* by one bit, and the carry the last bit that fell out; and the scaled    *)
(* register offset of a load or store is the same operand, for every width *)
(* of the words (src/arm_data_processing.c lines 234-360 and 381-386,      *)
(* src/arm_load_store.c lines 36-68).                                      *)
THEOREM OperandsAreIterated == ShifterSpec => []ShiftsAreIterated
<1>1. ShifterInit => ShiftedAsCoded
  BY DEF ShifterInit, ShiftedAsCoded
<1>2. ASSUME ShiftedAsCoded, [ShifterNext]_shifting PROVE ShiftedAsCoded'
  <2>1. CASE \E i \in ShiftInstructions : Shift(i)
    <3>1. PICK i \in ShiftInstructions : Shift(i)
      BY <2>1
    <3>2. i.r15 = "none" /\ i.form = "immediate" =>
            index' = shift_operation(i.kind, i.value, i.amount, i.C)
      BY <3>1 DEF Shift
    <3>3. fields' = i /\ ~NamesPc(i) /\ shifter' = Shifted(i)
      BY <3>1 DEF Shift
    <3> QED BY <3>2, <3>3 DEF ShiftedAsCoded
  <2>2. CASE \E i \in ShiftInstructions : RefusePc(i)
    BY <2>2 DEF RefusePc, ShiftedAsCoded
  <2>3. CASE Used
    BY <2>3 DEF Used, ShiftedAsCoded
  <2>4. CASE UNCHANGED shifting
    BY <1>2, <2>4 DEF shifting, ShiftedAsCoded, Shifted, NamesPc, Rm_value
  <2> QED BY <1>2, <2>1, <2>2, <2>3, <2>4 DEF ShifterNext
<1>3. ShiftedAsCoded => ShiftsAreIterated
  BY ShiftedIsIterated DEF ShiftedAsCoded, ShiftsAreIterated
<1> QED BY <1>1, <1>2, <1>3, PTL DEF ShifterSpec

(* The shifter is always typed: the operand is a word and the carry a bit, *)
(* so every shift stays inside the word (src/arm_data_processing.c lines   *)
(* 234-360, src/arm_load_store.c lines 36-68).                             *)
THEOREM OperandsAreWords == ShifterSpec => []ShifterTypeOK
<1>1. 0 \in Number /\ 0 \in {0, 1}
  BY PowFacts DEF Number
<1>2. NoShift \in ShiftInstructions
  <2> DEFINE own == CHOOSE o \in OwnAddresses : TRUE
  <2>1. own \in OwnAddresses
    BY ShifterAssumption
  <2>2. 0 \in ImmediateByte /\ 0 \in 0 .. (Width \div 2 - 1)
    <3>1. Width \div 4 \in 0 .. Width /\ 0 \in 0 .. (Width \div 2 - 1)
      BY PowFacts
    <3>2. Pow(Width \div 4) \in Nat /\ Pow(Width \div 4) > 0
      BY <3>1, PowFacts
    <3>3. ImmediateByte = 0 .. (Pow(Width \div 4) - 1)
      BY Zenon DEF ImmediateByte, Pow
    <3> QED BY <3>1, <3>2, <3>3
  <2> HIDE DEF own
  <2>3. [form |-> "rotated", kind |-> "ROR", value |-> 0, amount |-> 0, C |-> 0, r15 |-> "none",
         own |-> own] \in ShiftInstructions
    BY <1>1, <2>1, <2>2 DEF ShiftInstructions
  <2> QED BY <2>3, Zenon DEF NoShift, own
<1>3. Operand(0, 0) \in [operand : Number, carry : {0, 1}]
  BY <1>1 DEF Operand
<1>4. ShifterInit => ShifterTypeOK
  BY <1>1, <1>2, <1>3 DEF ShifterInit, ShifterTypeOK
<1>5. ASSUME ShifterTypeOK, [ShifterNext]_shifting PROVE ShifterTypeOK'
  <2>1. CASE \E i \in ShiftInstructions : Shift(i)
    <3>1. PICK i \in ShiftInstructions : Shift(i)
      BY <2>1
    <3>2. Whole(Shifted(i)) /\ Shifted(i) = Operand(Shifted(i).operand, Shifted(i).carry)
      BY <3>1, ShiftedAreWords DEF Shift
    <3>3. Shifted(i) \in [operand : Number, carry : {0, 1}]
      BY <3>2 DEF Whole, Operand
    <3>4. i.form = "immediate" /\ i.r15 = "none" =>
             shift_operation(i.kind, i.value, i.amount, i.C) \in Number
      BY <3>1, <3>2, ShiftedIsIterated DEF Whole, Shift
    <3> QED BY <1>1, <3>1, <3>3, <3>4 DEF Shift, ShifterTypeOK
  <2>2. CASE \E i \in ShiftInstructions : RefusePc(i)
    BY <1>5, <2>2 DEF RefusePc, ShifterTypeOK
  <2>3. CASE Used
    BY <1>1, <1>2, <1>3, <2>3 DEF Used, ShifterTypeOK
  <2>4. CASE UNCHANGED shifting
    BY <1>5, <2>4 DEF shifting, ShifterTypeOK
  <2> QED BY <1>5, <2>1, <2>2, <2>3, <2>4 DEF ShifterNext
<1> QED BY <1>4, <1>5, PTL DEF ShifterSpec
=============================================================================
