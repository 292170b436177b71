--------------------------- MODULE Storage_lemmas ---------------------------
(***************************************************************************)
(* Lemmas about the operators of Registers and of Memory: where a register *)
(* number and a mode lead, that every operation keeps the shape of the     *)
(* file, and how a word is taken apart into bytes and put together again.  *)
(* They hold for any set of words that has 0, any byte width and any       *)
(* memory of at least a word.                                              *)
(***************************************************************************)
EXTENDS Registers, Memory, TLAPS

(* The seven mode encodings are different words.                           *)
LEMMA ModesDistinct ==
    /\ USR \notin {FIQ, IRQ, SVC, ABT, UND, SYS}
    /\ FIQ \notin {IRQ, SVC, ABT, UND, SYS}
    /\ IRQ \notin {SVC, ABT, UND, SYS}
    /\ SVC \notin {ABT, UND, SYS}
    /\ ABT \notin {UND, SYS}
    /\ UND # SYS
<1>1. /\ 0 \notin USR /\ 1 \notin USR /\ 2 \notin USR /\ 3 \notin USR
      /\ 0 \in FIQ /\ 1 \notin FIQ /\ 2 \notin FIQ /\ 3 \notin FIQ
      /\ 0 \notin IRQ /\ 1 \in IRQ /\ 2 \notin IRQ /\ 3 \notin IRQ
      /\ 0 \in SVC /\ 1 \in SVC /\ 2 \notin SVC /\ 3 \notin SVC
      /\ 2 \in ABT /\ 3 \notin ABT
      /\ 2 \notin UND /\ 3 \in UND
      /\ 0 \in SYS /\ 2 \in SYS /\ 3 \in SYS
  BY DEF USR, FIQ, IRQ, SVC, ABT, UND, SYS
<1>2. /\ \A m \in {IRQ, SVC, ABT, UND, SYS} : 1 \in m
      /\ \A m \in {FIQ, SVC, ABT, UND, SYS} : 0 \in m
  BY DEF FIQ, IRQ, SVC, ABT, UND, SYS
<1>3. QED BY <1>1, <1>2

(* Where mode_ind finds a register.  The banks are sixteen slots apart, so *)
(* the slot gives back both the bank and the number.                       *)
LEMMA StackBankValues ==
    ASSUME NEW mode
    PROVE  /\ StackBank(mode) \in {-1, 0, 16, 32, 48, 64, 80}
           /\ StackBank(mode) = -1 <=> mode \notin Modes
BY ModesDistinct
   DEF StackBank, Modes, PrivilegedModes, ExceptionModes, USR_INDEX, SVC_INDEX, ABT_INDEX,
       UND_INDEX, IRQ_INDEX, FIQ_INDEX

(* mode_ind gives the base of a bank, and the slot is in the table.        *)
LEMMA ModeIndexValues ==
    ASSUME NEW reg \in 0 .. 15, NEW mode
    PROVE  /\ mode_ind(reg, mode) \in {-1, 0, 16, 32, 48, 64, 80}
           /\ mode_ind(reg, mode) # -1 => mode_ind(reg, mode) + reg \in Slot
           /\ mode_ind(reg, mode) = -1 <=> reg \in 8 .. 14 /\ mode \notin Modes
<1>1. CASE reg \in (0 .. 7) \cup {15}
  BY <1>1 DEF mode_ind, USR_INDEX, Slot
<1>2. CASE reg \in 8 .. 12
  BY <1>2 DEF mode_ind, USR_INDEX, FIQ_INDEX, Slot, Modes, PrivilegedModes, ExceptionModes
<1>3. CASE reg \in 13 .. 14
  <2>1. mode_ind(reg, mode) = StackBank(mode)
    BY <1>3 DEF mode_ind
  <2>2. QED BY <1>3, <2>1, StackBankValues DEF Slot
<1>4. QED BY <1>1, <1>2, <1>3

(* The SPSRs of the exception modes are five different entries.            *)
LEMMA StatIndexValues ==
    /\ \A m \in ExceptionModes : StatIndex(m) \in StatSlot
    /\ \A m, n \in ExceptionModes : StatIndex(m) = StatIndex(n) => m = n
<1>1. StatIndex(FIQ) = 0 /\ StatIndex(IRQ) = 1 /\ StatIndex(SVC) = 2
      /\ StatIndex(ABT) = 3 /\ StatIndex(UND) = 4
  BY ModesDistinct DEF StatIndex
<1>2. QED BY <1>1 DEF ExceptionModes, StatSlot

-----------------------------------------------------------------------------
(* Each operation keeps the shape of the file.                             *)
LEMMA CreateType == registers_create \in RegisterFileType
BY ZeroIsWord DEF registers_create, RegisterFileType, Psr

(* registers_write keeps the shape of the register file.                   *)
LEMMA WriteType ==
    ASSUME NEW f \in RegisterFileType, NEW reg \in 0 .. 15, NEW mode, NEW value \in Word
    PROVE  registers_write(f, reg, mode, value) \in RegisterFileType
BY ModeIndexValues DEF registers_write, RegisterFileType

(* registers_read gives a word, zero for a mode field that names no mode.  *)
LEMMA ReadType ==
    ASSUME NEW f \in RegisterFileType, NEW reg \in 0 .. 15, NEW mode
    PROVE  registers_read(f, reg, mode) \in Word
BY ModeIndexValues, ZeroIsWord DEF registers_read, RegisterFileType

(* registers_write_cpsr keeps the shape.                                   *)
LEMMA WriteCpsrType ==
    ASSUME NEW f \in RegisterFileType, NEW value \in Psr
    PROVE  registers_write_cpsr(f, value) \in RegisterFileType
BY DEF registers_write_cpsr, RegisterFileType

(* So does registers_write_spsr, in a mode without an SPSR too.            *)
LEMMA WriteSpsrType ==
    ASSUME NEW f \in RegisterFileType, NEW mode, NEW value \in Psr
    PROVE  registers_write_spsr(f, mode, value) \in RegisterFileType
BY StatIndexValues DEF registers_write_spsr, RegisterFileType

(* registers_read_spsr gives a status word.                                *)
LEMMA ReadSpsrType ==
    ASSUME NEW f \in RegisterFileType, NEW mode
    PROVE  registers_read_spsr(f, mode) \in Psr
BY StatIndexValues DEF registers_read_spsr, RegisterFileType, Psr

(* The SPSR query keeps the shape, although it writes.                     *)
LEMMA AskSpsrType ==
    ASSUME NEW f \in RegisterFileType
    PROVE  registers_current_mode_has_spsr(f) \in RegisterFileType
BY WriteSpsrType DEF registers_current_mode_has_spsr, RegisterFileType

-----------------------------------------------------------------------------
(* Division with a quotient and a remainder that are known.                *)
LEMMA Division ==
    ASSUME NEW b \in Nat, b > 0, NEW q \in Nat, NEW r \in 0 .. (b - 1)
    PROVE  /\ (q * b + r) \div b = q
           /\ (q * b + r) % b = r
OBVIOUS

(* What division gives.                                                    *)
LEMMA QuotientAndRemainder ==
    ASSUME NEW b \in Nat, b > 0, NEW v \in Nat
    PROVE  /\ v \div b \in Nat
           /\ v % b \in 0 .. (b - 1)
           /\ v = (v \div b) * b + (v % b)
<1>1. v \div b \in Int /\ v % b \in 0 .. (b - 1)
  OBVIOUS
<1>2. v = b * (v \div b) + (v % b)
  OBVIOUS
<1>3. v \div b >= 0
  OBVIOUS
<1> QED BY <1>1, <1>2, <1>3

(* Dividing twice is dividing by the product.                              *)
LEMMA DividingTwice ==
    ASSUME NEW b \in Nat, b > 0, NEW c \in Nat, c > 0, NEW v \in Nat
    PROVE  (v \div b) \div c = v \div (c * b)
<1> DEFINE q == v \div b
<1> DEFINE x == q \div c
<1> DEFINE r == v % b
<1> DEFINE s == q % c
<1>1. /\ q \in Nat /\ r \in 0 .. (b - 1) /\ v = q * b + r
  BY QuotientAndRemainder
<1>2. /\ x \in Nat /\ s \in 0 .. (c - 1) /\ q = x * c + s
  BY <1>1, QuotientAndRemainder
<1> HIDE DEF q, x, r, s
<1>3. s * b + r \in 0 .. (c * b - 1)
  <2>1. s * b >= 0 /\ s * b <= (c - 1) * b
    BY <1>2
  <2>2. (c - 1) * b = c * b - b
    OBVIOUS
  <2>3. s * b \in Int /\ c * b \in Int
    BY <1>2
  <2> QED BY <1>1, <2>1, <2>2, <2>3
<1>4. v = x * (c * b) + (s * b + r)
  BY <1>1, <1>2
<1>5. c * b \in Nat /\ c * b > 0
  OBVIOUS
<1>6. v \div (c * b) = x
  BY <1>2, <1>3, <1>4, <1>5, Division
<1> QED BY <1>6 DEF x, q

(* The base is a number above one, and so are its powers.                  *)
LEMMA Powers ==
    /\ ByteMod \in Nat /\ ByteMod > 1
    /\ ByteMod * ByteMod \in Nat /\ ByteMod * ByteMod > 0
    /\ ByteMod * ByteMod * ByteMod \in Nat /\ ByteMod * ByteMod * ByteMod > 0
    /\ ByteMod * (ByteMod * ByteMod) = ByteMod * ByteMod * ByteMod
BY MemoryAssumption

(* Putting two bytes together and taking them apart.                       *)
LEMMA TwoDigits ==
    ASSUME NEW high \in Byte, NEW low \in Byte
    PROVE  /\ TwoBytes(high, low) \in HalfWord
           /\ TwoBytes(high, low) % ByteMod = low
           /\ TwoBytes(high, low) \div ByteMod = high
<1>1. /\ high \in Nat /\ high <= ByteMod - 1
      /\ low \in 0 .. (ByteMod - 1)
  BY Powers DEF Byte
<1>2. /\ (high * ByteMod + low) \div ByteMod = high
      /\ (high * ByteMod + low) % ByteMod = low
  BY <1>1, Powers, Division
<1>3. high * ByteMod + low \in HalfWord
  <2>1. high * ByteMod <= (ByteMod - 1) * ByteMod /\ high * ByteMod >= 0
    BY <1>1, Powers
  <2>2. (ByteMod - 1) * ByteMod = ByteMod * ByteMod - ByteMod
    BY Powers
  <2> QED BY <1>1, <2>1, <2>2, Powers DEF HalfWord
<1> QED BY <1>2, <1>3 DEF TwoBytes

(* A half word is a word.                                                  *)
LEMMA HalfWordsAreWords == HalfWord \subseteq FullWord /\ Byte \subseteq HalfWord
<1> DEFINE BB == ByteMod * ByteMod
<1>1. BB \in Nat /\ BB >= ByteMod
  BY Powers
<1>2. BB * ByteMod >= BB /\ BB * ByteMod \in Nat
  BY Powers, <1>1
<1>3. BB * ByteMod * ByteMod >= BB * ByteMod /\ BB * ByteMod * ByteMod \in Nat
  BY Powers, <1>2
<1>4. HalfWord = 0 .. (BB - 1) /\ FullWord = 0 .. (BB * ByteMod * ByteMod - 1)
  BY DEF HalfWord, FullWord
<1> HIDE DEF BB
<1> QED BY <1>1, <1>2, <1>3, <1>4, Powers DEF Byte

(* A word made of two half words, and of four bytes, gives them back.      *)
LEMMA FourDigits ==
    ASSUME NEW b0 \in Byte, NEW b1 \in Byte, NEW b2 \in Byte, NEW b3 \in Byte,
           NEW w, w = TwoBytes(b3, b2) * (ByteMod * ByteMod) + TwoBytes(b1, b0)
    PROVE  /\ w \in FullWord
           /\ w % ByteMod = b0
           /\ (w \div ByteMod) % ByteMod = b1
           /\ (w \div (ByteMod * ByteMod)) % ByteMod = b2
           /\ (w \div (ByteMod * ByteMod * ByteMod)) % ByteMod = b3
<1> DEFINE high == TwoBytes(b3, b2)
<1> DEFINE low == TwoBytes(b1, b0)
<1> DEFINE BB == ByteMod * ByteMod
<1>1. /\ high \in HalfWord /\ high % ByteMod = b2 /\ high \div ByteMod = b3
      /\ low \in HalfWord /\ low % ByteMod = b0 /\ low \div ByteMod = b1
  BY TwoDigits
<1>2. BB \in Nat /\ BB > 0 /\ high \in 0 .. (BB - 1) /\ low \in 0 .. (BB - 1)
  BY <1>1, Powers DEF HalfWord
<1>3. low = b1 * ByteMod + b0
  BY DEF TwoBytes
<1> HIDE DEF high, low
<1>4. w = high * BB + low
  BY DEF high, low
<1>5. w \div BB = high
  BY <1>2, <1>4, Division
<1>6. w \in Nat
  BY <1>2, <1>4
<1>7. (w \div BB) \div ByteMod = w \div (ByteMod * BB)
  BY <1>2, <1>6, Powers, DividingTwice
<1>8. b0 \in 0 .. (ByteMod - 1) /\ b1 \in 0 .. (ByteMod - 1) /\ b3 \in 0 .. (ByteMod - 1)
  BY DEF Byte
<1>9. w = (high * ByteMod + b1) * ByteMod + b0
  <2>1. high * (ByteMod * ByteMod) = (high * ByteMod) * ByteMod
    BY <1>2, Powers
  <2>2. (high * ByteMod + b1) * ByteMod = (high * ByteMod) * ByteMod + b1 * ByteMod
    BY <1>2, <1>8, Powers
  <2> QED BY <1>2, <1>3, <1>4, <1>8, <2>1, <2>2, Powers
<1>10. high * ByteMod + b1 \in Nat
  BY <1>2, <1>8, Powers
<1>11. w \div ByteMod = high * ByteMod + b1 /\ w % ByteMod = b0
  <2> DEFINE q == high * ByteMod + b1
  <2>1. q \in Nat /\ w = q * ByteMod + b0
    BY <1>9, <1>10
  <2> HIDE DEF q
  <2>2. w \div ByteMod = q /\ w % ByteMod = b0
    BY <1>8, <2>1, Powers, Division
  <2> QED BY <2>2 DEF q
<1>12. (high * ByteMod + b1) % ByteMod = b1
  BY <1>2, <1>8, Powers, Division
<1>13. b3 % ByteMod = b3
  BY <1>8, Powers
<1>14. w \in FullWord
  <2>1. high * BB <= (BB - 1) * BB /\ high * BB >= 0
    BY <1>2
  <2>2. (BB - 1) * BB = BB * BB - BB
    BY <1>2
  <2>3. BB * BB = ByteMod * ByteMod * ByteMod * ByteMod
    BY Powers
  <2>4. BB * BB \in Nat
    BY <1>2
  <2> HIDE DEF BB
  <2>5. w \in 0 .. (BB * BB - 1)
    BY <1>2, <1>4, <1>6, <2>1, <2>2, <2>4
  <2> QED BY <2>3, <2>5 DEF FullWord
<1> QED BY <1>1, <1>5, <1>7, <1>11, <1>12, <1>13, <1>14, Powers

-----------------------------------------------------------------------------
(* The digits of any number are bytes.                                     *)
LEMMA BytesOf == ASSUME NEW v \in Nat, NEW i \in 0 .. 3 PROVE ByteOf(v, i) \in Byte
<1>1. CASE i = 0 BY <1>1, QuotientAndRemainder, Powers DEF ByteOf, Byte
<1>2. CASE i = 1 BY <1>2, QuotientAndRemainder, Powers DEF ByteOf, Byte
<1>3. CASE i = 2 BY <1>3, QuotientAndRemainder, Powers DEF ByteOf, Byte
<1>4. CASE i = 3 BY <1>4, QuotientAndRemainder, Powers DEF ByteOf, Byte
<1> QED BY <1>1, <1>2, <1>3, <1>4

(* All of them are natural numbers.                                        *)
LEMMA NumbersAreNatural == /\ Byte \subseteq Nat /\ HalfWord \subseteq Nat
                           /\ FullWord \subseteq Nat
BY DEF Byte, HalfWord, FullWord

(* Every word read from bytes is a word, and every memory written is one.  *)
LEMMA AccessesAreTyped ==
    ASSUME NEW m \in Contents, NEW a \in Nat, NEW be \in BOOLEAN
    PROVE  /\ ~byte_refused(a) => memory_read_byte(m, a) \in FullWord
           /\ ~half_refused(a) => memory_read_half(m, a, be) \in FullWord
           /\ ~word_refused(a) => memory_read_word(m, a, be) \in FullWord
           /\ \A v \in Byte     : memory_write_byte(m, a, v) \in Contents
           /\ \A v \in HalfWord : memory_write_half(m, a, v, be) \in Contents
           /\ \A v \in FullWord : memory_write_word(m, a, v, be) \in Contents
<1>1. /\ Size \in Nat /\ Size >= 4
  BY MemoryAssumption
<1>2. ~byte_refused(a) => memory_read_byte(m, a) \in FullWord
  BY <1>1, HalfWordsAreWords DEF byte_refused, memory_read_byte, Contents, Address
<1>3. ~half_refused(a) => memory_read_half(m, a, be) \in FullWord
  <2>1. ~half_refused(a) => m[a] \in Byte /\ m[a + 1] \in Byte
    BY <1>1 DEF half_refused, Contents, Address
  <2> QED BY <2>1, TwoDigits, HalfWordsAreWords DEF memory_read_half
<1>4. ~word_refused(a) => memory_read_word(m, a, be) \in FullWord
  <2>1. ~word_refused(a) =>
           m[a] \in Byte /\ m[a + 1] \in Byte /\ m[a + 2] \in Byte /\ m[a + 3] \in Byte
    BY <1>1 DEF word_refused, Contents, Address
  <2>2. CASE be = TRUE BY <2>1, <2>2, FourDigits DEF memory_read_word
  <2>3. CASE be = FALSE BY <2>1, <2>3, FourDigits DEF memory_read_word
  <2> QED BY <2>2, <2>3
<1>5. \A v \in Byte : memory_write_byte(m, a, v) \in Contents
  BY DEF memory_write_byte, Contents
<1>6. \A v \in HalfWord : memory_write_half(m, a, v, be) \in Contents
  <2> SUFFICES ASSUME NEW v \in HalfWord PROVE memory_write_half(m, a, v, be) \in Contents
    OBVIOUS
  <2>1. ByteOf(v, 0) \in Byte /\ ByteOf(v, 1) \in Byte
    BY BytesOf, NumbersAreNatural
  <2> QED BY <2>1 DEF memory_write_half, Contents
<1>7. \A v \in FullWord : memory_write_word(m, a, v, be) \in Contents
  <2> SUFFICES ASSUME NEW v \in FullWord PROVE memory_write_word(m, a, v, be) \in Contents
    OBVIOUS
  <2>1. \A i \in 0 .. 3 : ByteOf(v, i) \in Byte
    BY BytesOf, NumbersAreNatural
  <2>2. \A c \in Address : c \in a .. (a + 3) =>
           /\ 3 - (c - a) \in 0 .. 3 /\ c - a \in 0 .. 3
    BY <1>1 DEF Address
  <2> QED BY <2>1, <2>2 DEF memory_write_word, Contents
<1> QED BY <1>2, <1>3, <1>4, <1>5, <1>6, <1>7

-----------------------------------------------------------------------------
(* What is written is read back, at the same address in the same order.    *)
THEOREM ReadsWhatWasWritten ==
    ASSUME NEW m \in Contents, NEW a \in Nat, ~word_refused(a),
           NEW be \in BOOLEAN, NEW v \in FullWord
    PROVE  memory_read_word(memory_write_word(m, a, v, be), a, be) = v
<1> DEFINE B == ByteMod
<1> DEFINE w == memory_write_word(m, a, v, be)
<1> DEFINE v1 == v \div B
<1> DEFINE v2 == v \div (B * B)
<1> DEFINE v3 == v \div (B * B * B)
<1>1. /\ Size \in Nat /\ a + 3 < Size
      /\ Address = 0 .. (Size - 1)
  BY MemoryAssumption DEF word_refused, Address
<1>2. v \in Nat
  BY NumbersAreNatural
<1>3. v = v1 * B + (v % B) /\ v1 \in Nat /\ v % B \in Nat
  BY <1>2, Powers, QuotientAndRemainder
<1>4. v1 = v2 * B + (v1 % B) /\ v2 \in Nat /\ v1 % B \in Nat
  <2>1. v1 \div B = v2
    BY <1>2, Powers, DividingTwice
  <2> HIDE DEF v1, v2
  <2>2. v1 = (v1 \div B) * B + (v1 % B) /\ v1 \div B \in Nat /\ v1 % B \in Nat
    BY <1>3, Powers, QuotientAndRemainder
  <2> QED BY <2>1, <2>2
<1>5. v2 = v3 * B + (v2 % B) /\ v3 \in Nat /\ v2 % B \in Nat
  <2>1. v2 \div B = v3
    BY <1>2, Powers, DividingTwice
  <2> HIDE DEF v2, v3
  <2>2. v2 = (v2 \div B) * B + (v2 % B) /\ v2 \div B \in Nat /\ v2 % B \in Nat
    BY <1>4, Powers, QuotientAndRemainder
  <2> QED BY <2>1, <2>2
<1>6. v3 % B = v3
  <2>1. v3 < B
    <3>1. v < B * B * B * B
      BY Powers DEF FullWord
    <3>2. v = v3 * (B * B * B) + (v % (B * B * B)) /\ v % (B * B * B) >= 0
      BY <1>2, Powers, QuotientAndRemainder
    <3>3. v3 >= B => v3 * (B * B * B) >= B * (B * B * B)
      BY <1>5, Powers
    <3>4. B * (B * B * B) = B * B * B * B
      BY Powers
    <3> QED BY <1>2, <1>5, <3>1, <3>2, <3>3, <3>4, Powers
  <2> QED BY <1>5, <2>1, Powers
<1>7. memory_read_word(w, a, be) = (v3 * B + (v2 % B)) * (B * B) + ((v1 % B) * B + (v % B))
  <2>1. \A c \in a .. (a + 3) : w[c] = ByteOf(v, IF be THEN 3 - (c - a) ELSE c - a)
    BY <1>1 DEF memory_write_word
  <2>2. /\ w[a] = ByteOf(v, IF be THEN 3 ELSE 0)
        /\ w[a + 1] = ByteOf(v, IF be THEN 2 ELSE 1)
        /\ w[a + 2] = ByteOf(v, IF be THEN 1 ELSE 2)
        /\ w[a + 3] = ByteOf(v, IF be THEN 0 ELSE 3)
    BY <2>1
  <2>3. /\ ByteOf(v, 0) = v % B /\ ByteOf(v, 1) = v1 % B
        /\ ByteOf(v, 2) = v2 % B /\ ByteOf(v, 3) = v3
    BY <1>6 DEF ByteOf
  <2> HIDE DEF w, v1, v2, v3
  <2> QED BY <2>2, <2>3 DEF memory_read_word, TwoBytes
<1>8. (v3 * B + (v2 % B)) * (B * B) + ((v1 % B) * B + (v % B)) = v
  <2> HIDE DEF v1, v2, v3, B
  <2>1. v2 * (B * B) = (v2 * B) * B /\ B \in Nat
    BY <1>4, Powers DEF B
  <2>2. v1 * B = (v2 * B) * B + (v1 % B) * B
    <3> DEFINE x == v2 * B
    <3> DEFINE y == v1 % B
    <3>1. v1 = x + y /\ x \in Nat /\ y \in Nat
      BY <1>4, <2>1
    <3> HIDE DEF x, y
    <3>2. v1 * B = x * B + y * B
      BY <2>1, <3>1
    <3> QED BY <3>2 DEF x, y
  <2> QED BY <1>2, <1>3, <1>4, <1>5, <2>1, <2>2
<1> QED BY <1>7, <1>8
=============================================================================
