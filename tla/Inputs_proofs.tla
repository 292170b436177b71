---------------------------- MODULE Inputs_proofs ----------------------------
(***************************************************************************)
(* For words of any width: a comparison decides the signed conditions as   *)
(* the integers stand, a sum or difference is exact but for V, and every   *)
(* operation leaves a word.  For every encoding: the handler an            *)
(* instruction is given to knows it.  For every command line: the          *)
(* simulator runs with what it asks for.                                   *)
(***************************************************************************)
EXTENDS DataProcessing, Decode, Options, SequenceTheorems, WellFoundedInduction, TLAPS

(* What the five operations without carry compute.                         *)
Arithmetic == {"SUB", "CMP", "RSB", "ADD", "CMN"}

Arith(i) == CASE i.opcode \in {"SUB", "CMP"} -> DifferenceOf(i.a, i.b)
              [] i.opcode = "RSB"            -> DifferenceOf(i.b, i.a)
              [] i.opcode \in {"ADD", "CMN"} -> SumOf(i.a, i.b)

(* What ties the flags and the result to the arguments: strong enough for  *)
(* the properties, and kept by the three actions.                          *)
LeftByCall == phase = "computed" /\ args.opcode \in Arithmetic =>
                  /\ result = Arith(args).result
                  /\ args.S => flags = FlagsOf(Arith(args))

(* And what the three with a carry compute from the carry of the call.     *)
ArithWithCarry(i, c) == CASE i.opcode = "ADC" -> SumWithCarry(i.a, i.b, c)
                          [] i.opcode = "SBC" -> DifferenceWithCarry(i.a, i.b, c)
                          [] i.opcode = "RSC" -> DifferenceWithCarry(i.b, i.a, c)

LeftWithCarry == /\ phase = "called" => carry = flags.C
                 /\ phase = "computed" /\ args.opcode \in WithCarry =>
                       /\ result = ArithWithCarry(args, carry).result
                       /\ args.S => flags.C = ArithWithCarry(args, carry).C

IInv == args \in Arguments /\ LeftByCall /\ LeftWithCarry

-----------------------------------------------------------------------------
(* Modulus is a positive even number, whatever the width.                  *)
LEMMA ModulusFacts == Modulus \in Nat /\ SignBit \in Nat /\ SignBit > 1 /\ Modulus = 2 * SignBit
BY WidthAssumption DEF Modulus

(* A word read as int lies between the least and the greatest int, and     *)
(* differs from the word by the modulus or not at all.                     *)
LEMMA AsIntRange ==
    ASSUME NEW w \in Number
    PROVE  /\ AsInt(w) \in Int
           /\ -SignBit <= AsInt(w) /\ AsInt(w) < SignBit
           /\ AsInt(w) = w \/ AsInt(w) = w - Modulus
           /\ AsInt(w) < 0 <=> w >= SignBit
BY ModulusFacts DEF AsInt, Number

(* N and V differ: the sign of the integer, wherever it is.                *)
SignOf(n, v) == (n /\ ~v) \/ (~n /\ v)

(* The six conditions on integers look at Z and at that sign.              *)
LEMMA ConditionsBySign ==
    ASSUME NEW f \in Flags
    PROVE  /\ instruction_cond(EQ, f) <=> f.Z
           /\ instruction_cond(NE, f) <=> ~f.Z
           /\ instruction_cond(GE, f) <=> ~SignOf(f.N, f.V)
           /\ instruction_cond(LT, f) <=> SignOf(f.N, f.V)
           /\ instruction_cond(GT, f) <=> ~f.Z /\ ~SignOf(f.N, f.V)
           /\ instruction_cond(LE, f) <=> f.Z \/ SignOf(f.N, f.V)
<1>1. f.N \in BOOLEAN /\ f.V \in BOOLEAN /\ f.Z \in BOOLEAN
  BY DEF Flags
<1>2. instruction_cond(EQ, f) <=> f.Z
  BY <1>1, SMT DEF instruction_cond, EQ, NE, HS, LO, MI, PL, VS, VC, HI, LS, GE, LT, GT, LE, AL
<1>3. instruction_cond(NE, f) <=> ~f.Z
  BY <1>1, SMT DEF instruction_cond, EQ, NE, HS, LO, MI, PL, VS, VC, HI, LS, GE, LT, GT, LE, AL
<1>4. instruction_cond(GE, f) <=> f.N = f.V
  BY <1>1, SMT DEF instruction_cond, EQ, NE, HS, LO, MI, PL, VS, VC, HI, LS, GE, LT, GT, LE, AL
<1>5. instruction_cond(LT, f) <=> f.N # f.V
  BY <1>1, SMT DEF instruction_cond, EQ, NE, HS, LO, MI, PL, VS, VC, HI, LS, GE, LT, GT, LE, AL
<1>6. instruction_cond(GT, f) <=> ~f.Z /\ f.N = f.V
  BY <1>1, SMT DEF instruction_cond, EQ, NE, HS, LO, MI, PL, VS, VC, HI, LS, GE, LT, GT, LE, AL
<1>7. instruction_cond(LE, f) <=> f.Z \/ f.N # f.V
  BY <1>1, SMT DEF instruction_cond, EQ, NE, HS, LO, MI, PL, VS, VC, HI, LS, GE, LT, GT, LE, AL
<1>8. (f.N # f.V <=> SignOf(f.N, f.V)) /\ (f.N = f.V <=> ~SignOf(f.N, f.V))
  BY <1>1, Zenon DEF SignOf
<1> QED
  BY <1>2, <1>3, <1>4, <1>5, <1>6, <1>7, <1>8, Zenon

(* A difference of two words: the word it gives and when it overflows.     *)
LEMMA DifferenceExact ==
    ASSUME NEW a \in Number, NEW b \in Number
    PROVE  LET r == Sub(a, b)
               d == AsInt(a) - AsInt(b)
           IN  /\ r \in Number /\ sub_overflow(a, b) \in BOOLEAN
               /\ AsInt(r) \in {d, d - Modulus, d + Modulus}
               /\ sub_overflow(a, b) <=> AsInt(r) # d
               /\ SignOf(r >= SignBit, sub_overflow(a, b)) <=> d < 0
               /\ r = 0 <=> a = b
<1>1. Sub(a, b) = IF a - b < 0 THEN a - b + Modulus ELSE a - b
  BY ModulusFacts DEF Sub, Wrap, Number
<1>2. sub_overflow(a, b) <=> ~(/\ -SignBit <= AsInt(a) - AsInt(b)
                               /\ AsInt(a) - AsInt(b) <= SignBit - 1)
  BY ModulusFacts, AsIntRange DEF sub_overflow, FitsInt
<1> DEFINE r == Sub(a, b)
           d == AsInt(a) - AsInt(b)
<1>3. /\ r \in Number
      /\ r \in {a - b, a - b - Modulus, a - b + Modulus}
  BY <1>1, ModulusFacts DEF Number
<1>4. /\ AsInt(r) \in {d, d - Modulus, d + Modulus}
      /\ AsInt(r) \in (-SignBit) .. (SignBit - 1)
      /\ d \in (-Modulus) .. (Modulus - 1)
  <2>1. AsInt(a) \in {a, a - Modulus} /\ AsInt(b) \in {b, b - Modulus}
    BY AsIntRange
  <2> QED
    BY <1>3, <2>1, ModulusFacts, AsIntRange DEF Number
<1>5. sub_overflow(a, b) <=> AsInt(r) # d
  BY <1>2, <1>3, <1>4, ModulusFacts
<1>6. r >= SignBit <=> AsInt(r) < 0
  BY <1>3, AsIntRange
<1>7. d < 0 <=> IF AsInt(r) # d THEN AsInt(r) >= 0 ELSE AsInt(r) < 0
  BY <1>3, <1>4, ModulusFacts
<1>8. SignOf(r >= SignBit, sub_overflow(a, b)) <=> d < 0
  BY <1>3, <1>4, <1>5, <1>6, <1>7, ModulusFacts DEF SignOf
<1>9. r = 0 <=> a = b
  BY <1>1, ModulusFacts DEF Number
<1>10. sub_overflow(a, b) \in BOOLEAN
  BY DEF sub_overflow
<1> QED
  BY <1>3, <1>4, <1>5, <1>8, <1>9, <1>10

(* The same of a sum.                                                      *)
LEMMA SumExact ==
    ASSUME NEW a \in Number, NEW b \in Number
    PROVE  LET r == Add(a, b)
               s == AsInt(a) + AsInt(b)
           IN  /\ r \in Number /\ add_overflow(a, b) \in BOOLEAN
               /\ AsInt(r) \in {s, s - Modulus, s + Modulus}
               /\ add_overflow(a, b) <=> AsInt(r) # s
               /\ SignOf(r >= SignBit, add_overflow(a, b)) <=> s < 0
<1>1. Add(a, b) = IF a + b >= Modulus THEN a + b - Modulus ELSE a + b
  BY ModulusFacts DEF Add, Wrap, Number
<1>2. add_overflow(a, b) <=> ~(/\ -SignBit <= AsInt(a) + AsInt(b)
                               /\ AsInt(a) + AsInt(b) <= SignBit - 1)
  BY ModulusFacts, AsIntRange DEF add_overflow, FitsInt
<1> DEFINE r == Add(a, b)
           s == AsInt(a) + AsInt(b)
<1>3. /\ r \in Number
      /\ r \in {a + b, a + b - Modulus, a + b + Modulus}
  BY <1>1, ModulusFacts DEF Number
<1>4. /\ AsInt(r) \in {s, s - Modulus, s + Modulus}
      /\ AsInt(r) \in (-SignBit) .. (SignBit - 1)
      /\ s \in (-Modulus) .. (Modulus - 1)
  <2>1. AsInt(a) \in {a, a - Modulus} /\ AsInt(b) \in {b, b - Modulus}
    BY AsIntRange
  <2> QED
    BY <1>3, <2>1, ModulusFacts, AsIntRange DEF Number
<1>5. add_overflow(a, b) <=> AsInt(r) # s
  BY <1>2, <1>3, <1>4, ModulusFacts
<1>6. r >= SignBit <=> AsInt(r) < 0
  BY <1>3, AsIntRange
<1>7. s < 0 <=> IF AsInt(r) # s THEN AsInt(r) >= 0 ELSE AsInt(r) < 0
  BY <1>3, <1>4, ModulusFacts
<1>8. SignOf(r >= SignBit, add_overflow(a, b)) <=> s < 0
  BY <1>3, <1>4, <1>5, <1>6, <1>7, ModulusFacts DEF SignOf
<1>10. add_overflow(a, b) \in BOOLEAN
  BY DEF add_overflow
<1> QED
  BY <1>3, <1>4, <1>5, <1>8, <1>10

(* Being off by the modulus, or not at all, is being equal modulo it.      *)
LEMMA SameResidue ==
    ASSUME NEW v \in Int, NEW d \in Int, v \in {d, d - Modulus, d + Modulus}
    PROVE  (v - d) % Modulus = 0
<1>1. v - d \in {0, -Modulus, Modulus}
  BY ModulusFacts
<1>2. 0 % Modulus = 0 /\ Modulus % Modulus = 0 /\ (-Modulus) % Modulus = 0
  BY ModulusFacts, SMT
<1> QED
  BY <1>1, <1>2

(* And so is being off by twice the modulus.                               *)
LEMMA SameResidueTwice ==
    ASSUME NEW v \in Int, NEW d \in Int,
           v - d \in {0, -Modulus, Modulus, -(2 * Modulus), 2 * Modulus}
    PROVE  (v - d) % Modulus = 0
<1>1. 0 % Modulus = 0 /\ Modulus % Modulus = 0 /\ (-Modulus) % Modulus = 0
  BY ModulusFacts, SMT
<1>2. (2 * Modulus) % Modulus = 0 /\ (-(2 * Modulus)) % Modulus = 0
  BY ModulusFacts, SMT
<1> QED
  BY <1>1, <1>2

(* A carry is the same digit as word and as int.                           *)
LEMMA DigitIsNumber ==
    ASSUME NEW c
    PROVE  Digit(c) \in Number /\ AsInt(Digit(c)) = Digit(c)
BY ModulusFacts DEF Digit, Number, AsInt

(* When the carry left is the carry found, the two halves of a sum with    *)
(* carry add up.                                                           *)
LEMMA SumWithCarryExact ==
    ASSUME NEW a \in Number, NEW b \in Number, NEW c, SumWithCarry(a, b, c).C = c
    PROVE  LET r == SumWithCarry(a, b, c).result
           IN  (AsInt(r) - (AsInt(a) + AsInt(b) + Digit(c))) % Modulus = 0
<1> DEFINE tmp == Add(a, b)
           r   == Add(tmp, Digit(c))
<1>1. SumWithCarry(a, b, c).result = r
  BY DEF SumWithCarry, Outcome
<1>2. tmp \in Number /\ AsInt(tmp) - (AsInt(a) + AsInt(b)) \in {0, -Modulus, Modulus}
  BY SumExact, AsIntRange, ModulusFacts
<1>3. r \in Number /\ AsInt(r) - (AsInt(tmp) + Digit(c)) \in {0, -Modulus, Modulus}
  <2> HIDE DEF tmp
  <2> QED
    BY <1>2, DigitIsNumber, SumExact, AsIntRange, ModulusFacts
<1>4. /\ AsInt(a) \in Int /\ AsInt(b) \in Int /\ AsInt(tmp) \in Int /\ AsInt(r) \in Int
      /\ Digit(c) \in Int
  BY <1>2, <1>3, AsIntRange, DigitIsNumber DEF Number
<1> HIDE DEF tmp, r
<1> DEFINE exact == AsInt(a) + AsInt(b) + Digit(c)
<1>5. exact \in Int /\ AsInt(r) - exact \in {0, -Modulus, Modulus, -(2 * Modulus), 2 * Modulus}
  BY <1>2, <1>3, <1>4, ModulusFacts
<1>6. (AsInt(r) - exact) % Modulus = 0
  <2> HIDE DEF exact
  <2> QED
    BY <1>4, <1>5, SameResidueTwice
<1> QED
  BY <1>1, <1>6

(* The same of a difference.                                               *)
LEMMA DifferenceWithCarryExact ==
    ASSUME NEW a \in Number, NEW b \in Number, NEW c, DifferenceWithCarry(a, b, c).C = c
    PROVE  LET r == DifferenceWithCarry(a, b, c).result
           IN  (AsInt(r) - (AsInt(a) - AsInt(b) - Digit(~c))) % Modulus = 0
<1> DEFINE tmp == Sub(a, b)
           r   == Sub(tmp, Digit(~c))
<1>1. DifferenceWithCarry(a, b, c).result = r
  BY DEF DifferenceWithCarry, Outcome
<1>2. tmp \in Number /\ AsInt(tmp) - (AsInt(a) - AsInt(b)) \in {0, -Modulus, Modulus}
  BY DifferenceExact, AsIntRange, ModulusFacts
<1>3. r \in Number /\ AsInt(r) - (AsInt(tmp) - Digit(~c)) \in {0, -Modulus, Modulus}
  <2> HIDE DEF tmp
  <2> QED
    BY <1>2, DigitIsNumber, DifferenceExact, AsIntRange, ModulusFacts
<1>4. /\ AsInt(a) \in Int /\ AsInt(b) \in Int /\ AsInt(tmp) \in Int /\ AsInt(r) \in Int
      /\ Digit(~c) \in Int
  BY <1>2, <1>3, AsIntRange, DigitIsNumber DEF Number
<1> HIDE DEF tmp, r
<1> DEFINE exact == AsInt(a) - AsInt(b) - Digit(~c)
<1>5. exact \in Int /\ AsInt(r) - exact \in {0, -Modulus, Modulus, -(2 * Modulus), 2 * Modulus}
  BY <1>2, <1>3, <1>4, ModulusFacts
<1>6. (AsInt(r) - exact) % Modulus = 0
  <2> HIDE DEF exact
  <2> QED
    BY <1>4, <1>5, SameResidueTwice
<1> QED
  BY <1>1, <1>6

-----------------------------------------------------------------------------
(* The link between arguments, result and flags holds all along: a call    *)
(* sets the arguments, data_processing computes from them.                 *)
LEMMA Inductive == Spec => []IInv
<1>1. Init => IInv
  BY ModulusFacts DEF Init, IInv, LeftByCall, LeftWithCarry, Arguments, NoArguments, Opcode, Number
<1>2. IInv /\ [Next]_vars => IInv'
  <2> SUFFICES ASSUME IInv, [Next]_vars PROVE IInv'
    OBVIOUS
  <2>1. ASSUME NEW arguments \in Arguments, Call(arguments) PROVE IInv'
    BY <2>1 DEF Call, IInv, LeftByCall, LeftWithCarry
  <2>2. CASE data_processing
    <3>1. args' \in Arguments
      BY <2>2 DEF data_processing, IInv
    <3>2. ASSUME args.opcode \in Arithmetic
          PROVE  Compute(args.opcode, args.a, args.b, args.shifterCarry, flags) = Arith(args)
      BY <3>2 DEF Arithmetic, Compute, Arith
    <3>3. args.opcode \in Arithmetic =>
            /\ result' = Arith(args).result
            /\ args.S => flags' = FlagsOf(Arith(args))
      BY <2>2, <3>2 DEF data_processing
    <3>4. LeftByCall'
      BY <2>2, <3>3 DEF data_processing, LeftByCall, Arith
    <3>5. ASSUME args.opcode \in WithCarry
          PROVE  Compute(args.opcode, args.a, args.b, args.shifterCarry, flags)
                    = ArithWithCarry(args, flags.C)
      BY <3>5 DEF WithCarry, Compute, ArithWithCarry
    <3>6. carry = flags.C
      BY <2>2 DEF data_processing, IInv, LeftWithCarry
    <3>7. args.opcode \in WithCarry =>
            /\ result' = ArithWithCarry(args, carry).result
            /\ args.S => flags'.C = ArithWithCarry(args, carry).C
      BY <2>2, <3>5, <3>6 DEF data_processing, FlagsOf
    <3>8. LeftWithCarry'
      BY <2>2, <3>7 DEF data_processing, LeftWithCarry, ArithWithCarry
    <3> QED
      BY <3>1, <3>4, <3>8 DEF IInv
  <2>3. CASE Return
    BY <2>3, ModulusFacts DEF Return, IInv, LeftByCall, LeftWithCarry, NoArguments, Arguments, Opcode, Number
  <2>4. CASE UNCHANGED vars
    BY <2>4 DEF vars, IInv, LeftByCall, LeftWithCarry
  <2> QED
    BY <2>1, <2>2, <2>3, <2>4 DEF Next
<1> QED
  BY <1>1, <1>2, PTL DEF Spec

(* After CMP the signed conditions compare the integers, for every width.  *)
THEOREM ConditionsCompare == Spec => []SignedConditions
<1>1. IInv => SignedConditions
  <2> SUFFICES ASSUME IInv, phase = "computed", args.opcode = "CMP", args.S
               PROVE  /\ instruction_cond(EQ, flags) <=> AsInt(args.a) = AsInt(args.b)
                      /\ instruction_cond(NE, flags) <=> AsInt(args.a) # AsInt(args.b)
                      /\ instruction_cond(GE, flags) <=> AsInt(args.a) >= AsInt(args.b)
                      /\ instruction_cond(LT, flags) <=> AsInt(args.a) < AsInt(args.b)
                      /\ instruction_cond(GT, flags) <=> AsInt(args.a) > AsInt(args.b)
                      /\ instruction_cond(LE, flags) <=> AsInt(args.a) <= AsInt(args.b)
    BY DEF SignedConditions, Computed
  <2>1. args.a \in Number /\ args.b \in Number
    BY DEF IInv, Arguments
  <2>2. /\ AsInt(args.a) \in Int /\ AsInt(args.b) \in Int
        /\ args.a = args.b <=> AsInt(args.a) = AsInt(args.b)
    BY <2>1, ModulusFacts DEF AsInt, Number
  <2>3. flags = FlagsOf(DifferenceOf(args.a, args.b))
    BY DEF IInv, LeftByCall, Arithmetic, Arith
  <2>4. /\ flags.N <=> Sub(args.a, args.b) >= SignBit
        /\ flags.Z <=> Sub(args.a, args.b) = 0
        /\ flags.V <=> sub_overflow(args.a, args.b)
    BY <2>3 DEF FlagsOf, DifferenceOf, Outcome
  <2>8. flags \in Flags
    <3>1. sub_overflow(args.a, args.b) \in BOOLEAN /\ sub_carry(args.a, args.b) \in BOOLEAN
      BY DEF sub_overflow, sub_carry
    <3> QED
      BY <2>3, <3>1 DEF FlagsOf, DifferenceOf, Outcome, Flags
  <2>5. flags.Z <=> AsInt(args.a) = AsInt(args.b)
    BY <2>1, <2>2, <2>4, DifferenceExact
  <2>6. SignOf(flags.N, flags.V) <=> AsInt(args.a) < AsInt(args.b)
    <3>1. SignOf(Sub(args.a, args.b) >= SignBit, sub_overflow(args.a, args.b))
            <=> AsInt(args.a) - AsInt(args.b) < 0
      BY <2>1, DifferenceExact
    <3>2. AsInt(args.a) - AsInt(args.b) < 0 <=> AsInt(args.a) < AsInt(args.b)
      BY <2>2
    <3> QED
      BY <2>4, <3>1, <3>2 DEF SignOf
  <2>7. /\ AsInt(args.a) >= AsInt(args.b) <=> ~(AsInt(args.a) < AsInt(args.b))
        /\ AsInt(args.a) > AsInt(args.b)
              <=> AsInt(args.a) # AsInt(args.b) /\ ~(AsInt(args.a) < AsInt(args.b))
        /\ AsInt(args.a) <= AsInt(args.b)
              <=> AsInt(args.a) = AsInt(args.b) \/ AsInt(args.a) < AsInt(args.b)
    BY <2>2
  <2> QED
    BY <2>5, <2>6, <2>7, <2>8, ConditionsBySign
<1> QED
  BY <1>1, Inductive, PTL

(* A sum or a difference is right modulo the word and V tells when it is   *)
(* not the integer, for every width; with a carry it is right when the     *)
(* carry left is the carry found.                                          *)
THEOREM SumsAreExact == Spec => []ArithmeticIsExact
<1>1. ASSUME IInv, phase = "computed", args.opcode \in WithCarry, args.S, flags.C = carry
      PROVE  (AsInt(result) - Exact) % Modulus = 0
  <2>1. args.a \in Number /\ args.b \in Number
    BY <1>1 DEF IInv, Arguments
  <2>2. result = ArithWithCarry(args, carry).result /\ ArithWithCarry(args, carry).C = carry
    BY <1>1 DEF IInv, LeftWithCarry
  <2>3. CASE args.opcode = "ADC"
    <3>1. /\ ArithWithCarry(args, carry) = SumWithCarry(args.a, args.b, carry)
          /\ Exact = AsInt(args.a) + AsInt(args.b) + Digit(carry)
      BY <2>3 DEF ArithWithCarry, Exact
    <3> QED
      BY <2>1, <2>2, <3>1, SumWithCarryExact
  <2>4. CASE args.opcode = "SBC"
    <3>1. /\ ArithWithCarry(args, carry) = DifferenceWithCarry(args.a, args.b, carry)
          /\ Exact = AsInt(args.a) - AsInt(args.b) - Digit(~carry)
      BY <2>4 DEF ArithWithCarry, Exact
    <3> QED
      BY <2>1, <2>2, <3>1, DifferenceWithCarryExact
  <2>5. CASE args.opcode = "RSC"
    <3>1. /\ ArithWithCarry(args, carry) = DifferenceWithCarry(args.b, args.a, carry)
          /\ Exact = AsInt(args.b) - AsInt(args.a) - Digit(~carry)
      BY <2>5 DEF ArithWithCarry, Exact
    <3> QED
      BY <2>1, <2>2, <3>1, DifferenceWithCarryExact
  <2> QED
    BY <1>1, <2>3, <2>4, <2>5 DEF WithCarry
<1>2. IInv => ArithmeticIsExact
  <2> SUFFICES ASSUME IInv, phase = "computed", args.opcode \in Arithmetic
               PROVE  /\ (AsInt(result) - Exact) % Modulus = 0
                      /\ args.S => /\ flags.V <=> AsInt(result) # Exact
                                   /\ flags.Z <=> result = 0
                                   /\ (flags.N # flags.V) <=> Exact < 0
    BY <1>1 DEF ArithmeticIsExact, Computed, Arithmetic
  <2> DEFINE o == Arith(args)
  <2>1. args.a \in Number /\ args.b \in Number
    BY DEF IInv, Arguments
  <2>2. result = o.result /\ (args.S => flags = FlagsOf(o))
    BY DEF IInv, LeftByCall
  <2>3. /\ o.result \in Number
        /\ Exact \in Int
        /\ AsInt(o.result) \in {Exact, Exact - Modulus, Exact + Modulus}
        /\ o.V \in BOOLEAN /\ (o.V <=> AsInt(o.result) # Exact)
        /\ SignOf(o.result >= SignBit, o.V) <=> Exact < 0
    <3>1. CASE args.opcode \in {"SUB", "CMP"}
      <4>1. o = DifferenceOf(args.a, args.b) /\ Exact = AsInt(args.a) - AsInt(args.b)
        BY <3>1 DEF Arith, Exact
      <4> QED
        BY <2>1, <4>1, DifferenceExact, AsIntRange DEF DifferenceOf, Outcome
    <3>2. CASE args.opcode = "RSB"
      <4>1. o = DifferenceOf(args.b, args.a) /\ Exact = AsInt(args.b) - AsInt(args.a)
        BY <3>2 DEF Arith, Exact
      <4> QED
        BY <2>1, <4>1, DifferenceExact, AsIntRange DEF DifferenceOf, Outcome
    <3>3. CASE args.opcode \in {"ADD", "CMN"}
      <4>1. o = SumOf(args.a, args.b) /\ Exact = AsInt(args.a) + AsInt(args.b)
        BY <3>3 DEF Arith, Exact
      <4> QED
        BY <2>1, <4>1, SumExact, AsIntRange DEF SumOf, Outcome
    <3> QED
      BY <3>1, <3>2, <3>3 DEF Arithmetic
  <2>4. (AsInt(result) - Exact) % Modulus = 0
    BY <2>2, <2>3, AsIntRange, SameResidue
  <2>5. ASSUME args.S
        PROVE  flags.N = (o.result >= SignBit) /\ flags.Z = (o.result = 0) /\ flags.V = o.V
    BY <2>2, <2>5 DEF FlagsOf
  <2>6. ASSUME args.S PROVE (flags.N # flags.V) <=> SignOf(o.result >= SignBit, o.V)
    <3>1. flags.N \in BOOLEAN /\ flags.V \in BOOLEAN
      <4>1. (o.result >= SignBit) \in BOOLEAN
        BY <2>3, ModulusFacts
      <4>2. flags.N = (o.result >= SignBit) /\ flags.V = o.V
        BY <2>5, <2>6
      <4> QED
        BY <2>3, <4>1, <4>2, Zenon
    <3>2. (flags.N # flags.V) <=> SignOf(flags.N, flags.V)
      BY <3>1, Zenon DEF SignOf
    <3>3. SignOf(flags.N, flags.V) <=> SignOf(o.result >= SignBit, o.V)
      BY <2>5, <2>6, Zenon DEF SignOf
    <3> QED
      BY <3>2, <3>3, Zenon
  <2> QED
    BY <2>2, <2>3, <2>4, <2>5, <2>6
<1> QED
  BY <1>2, Inductive, PTL

-----------------------------------------------------------------------------
(* Decode.  Bits are zero or one, and a field that is one of the switch's  *)
(* classes is that class.                                                  *)
LEMMA BitsOfLow ==
    ASSUME NEW i \in Instruction
    PROVE  Bit4(i) \in {0, 1} /\ Bit7(i) \in {0, 1} /\ Bit20(i) \in {0, 1}
BY DEF Instruction, Bit4, Bit7, Bit20, Bit

(* What the switch gives to whom.                                          *)
LEMMA HandlerByClass ==
    ASSUME NEW i \in Instruction
    PROVE  /\ HandlerOf(i) = "arm_load_store" =>
                 \/ i.class = 0 /\ Extension(i)
                 \/ i.class = 2
                 \/ i.class = 3 /\ Bit4(i) = 0
           /\ HandlerOf(i) = "arm_data_processing_shift" =>
                 i.class = 0 /\ ~Extension(i) /\ ~(Bits24_23(i) = 2 /\ Bit20(i) = 0)
           /\ HandlerOf(i) = "arm_branch" => i.class = 5
           /\ HandlerOf(i) = "arm_miscellaneous" => Bits24_23(i) = 2
           /\ HandlerOf(i) = "arm_data_processing_immediate_msr" <=> i.class = 1
           /\ i.class = 2 \/ (i.class = 3 /\ Bit4(i) = 0) \/ Extension(i) =>
                 HandlerOf(i) = "arm_load_store"
           /\ i.class = 3 /\ Bit4(i) # 0 => HandlerOf(i) = "none"
           /\ HandlerOf(i) \in {"arm_load_store", "arm_data_processing_shift", "arm_branch",
                                "arm_miscellaneous", "arm_coprocessor_others_swi",
                                "arm_data_processing_immediate_msr",
                                "arm_load_store_multiple", "arm_coprocessor_load_store",
                                "none"}
<1> DEFINE both == Bit4(i) = 1 /\ Bit7(i) = 1
           misc == Bits24_23(i) = 2 /\ Bit20(i) = 0
<1>1. i.class \in 0 .. 7
  BY DEF Instruction
<1>0. Extension(i) => i.class = 0
  BY DEF Extension
<1>2. CASE i.class = 0
  <2>1. HandlerOf(i) = IF both THEN "arm_load_store"
                       ELSE IF misc THEN "arm_miscellaneous" ELSE "arm_data_processing_shift"
    <3>1. CASE both
      BY <1>2, <3>1 DEF HandlerOf
    <3>2. CASE ~both /\ misc
      BY <1>2, <3>2 DEF HandlerOf
    <3>3. CASE ~both /\ ~misc
      BY <1>2, <3>3 DEF HandlerOf
    <3> QED BY <3>1, <3>2, <3>3
  <2>2. Extension(i) <=> both
    BY <1>2 DEF Extension
  <2> HIDE DEF both, misc
  <2>3. misc => Bits24_23(i) = 2
    BY DEF misc
  <2> QED BY <1>2, <2>1, <2>2, <2>3 DEF misc
<1>3. CASE i.class = 3
  <2>1. HandlerOf(i) = IF Bit4(i) = 0 THEN "arm_load_store" ELSE "none"
    BY <1>3, BitsOfLow DEF HandlerOf
  <2> QED BY <1>0, <1>3, <2>1
<1>4. CASE i.class = 1
  <2>1. HandlerOf(i) = "arm_data_processing_immediate_msr"
    BY <1>4 DEF HandlerOf
  <2> QED BY <1>0, <1>4, <2>1
<1>5. CASE i.class = 2
  <2>1. HandlerOf(i) = "arm_load_store"
    BY <1>5 DEF HandlerOf
  <2> QED BY <1>0, <1>5, <2>1
<1>6. CASE i.class = 4
  <2>1. HandlerOf(i) = "arm_load_store_multiple"
    BY <1>6 DEF HandlerOf
  <2> QED BY <1>0, <1>6, <2>1
<1>7. CASE i.class = 5
  <2>1. HandlerOf(i) = "arm_branch"
    BY <1>7 DEF HandlerOf
  <2> QED BY <1>0, <1>7, <2>1
<1>8. CASE i.class = 6
  <2>1. HandlerOf(i) = "arm_coprocessor_load_store"
    BY <1>8 DEF HandlerOf
  <2> QED BY <1>0, <1>8, <2>1
<1>9. CASE i.class = 7
  <2>1. HandlerOf(i) = "arm_coprocessor_others_swi"
    BY <1>9 DEF HandlerOf
  <2> QED BY <1>0, <1>9, <2>1
<1> QED BY <1>1, <1>2, <1>3, <1>4, <1>5, <1>6, <1>7, <1>8, <1>9

(* A handler that is given an instruction takes one of its branches.       *)
LEMMA FormIsKnown ==
    ASSUME NEW i \in Instruction, HandlerOf(i) # "none"
    PROVE  /\ FormOf(i, HandlerOf(i)) # "unmatched"
           /\ HandlerOf(i) \in {"arm_branch", "arm_miscellaneous"} =>
                 FormOf(i, HandlerOf(i)) # "refused"
<1>1. CASE HandlerOf(i) = "arm_load_store"
  <2>1. LoadStoreForm(i) # "unmatched"
    BY <1>1, HandlerByClass DEF LoadStoreForm, Extension
  <2>2. QED BY <1>1, <2>1 DEF FormOf
<1>2. CASE HandlerOf(i) = "arm_data_processing_shift"
  <2>1. i.low \in 0 .. 15 /\ ~(i.low % 2 = 1 /\ (i.low \div 8) % 2 = 1)
    <3>1. Bit4(i) = i.low % 2 /\ Bit7(i) = (i.low \div 8) % 2
      BY DEF Bit4, Bit7, Bit, Instruction
    <3>2. QED BY <1>2, <3>1, HandlerByClass DEF Extension, Instruction
  <2>2. i.low % 8 \in {0, 2, 4, 6} \/ i.low \in {1, 3, 5, 7}
    BY <2>1
  <2>3. ShiftForm(i) \in {"by immediate", "by register"}
    BY <2>2 DEF ShiftForm, Bits6_4
  <2>4. QED BY <1>2, <2>3 DEF FormOf
<1>3. CASE HandlerOf(i) = "arm_branch"
  <2>1. BranchForm(i) = "branch"
    BY <1>3, HandlerByClass DEF BranchForm, Bit25, Bit
  <2>2. QED BY <1>3, <2>1 DEF FormOf
<1>4. CASE HandlerOf(i) = "arm_miscellaneous"
  <2>1. Bit(i.op, 16) = 1
    BY <1>4, HandlerByClass DEF Instruction, Bits24_23, Bit
  <2>2. QED BY <1>4, <2>1 DEF FormOf, MrsForm, Bit24
<1>5. QED
  <2>1. CASE HandlerOf(i) = "arm_coprocessor_others_swi"
    BY <2>1 DEF FormOf, SwiForm
  <2>2. CASE HandlerOf(i) = "arm_data_processing_immediate_msr"
    BY <2>2 DEF FormOf, ImmediateForm
  <2>3. CASE HandlerOf(i) \in {"arm_load_store_multiple", "arm_coprocessor_load_store"}
    BY <2>3 DEF FormOf
  <2> QED BY <1>1, <1>2, <1>3, <1>4, <2>1, <2>2, <2>3, HandlerByClass

(* A branch is one of its handler's.                                       *)
LEMMA FormOfHandler ==
    ASSUME NEW i \in Instruction, HandlerOf(i) # "none"
    PROVE  /\ HandlerOf(i) = "arm_load_store" <=>
                 FormOf(i, HandlerOf(i)) \in {"immediate", "register", "scaled", "half"}
           /\ FormOf(i, HandlerOf(i)) \in {"by immediate", "by register"} =>
                 HandlerOf(i) = "arm_data_processing_shift"
           /\ FormOf(i, HandlerOf(i)) = "rotated" <=> i.class = 1 /\ ImmediateForm(i) = "rotated"
<1> DEFINE h == HandlerOf(i)
           f == FormOf(i, h)
<1>1. CASE h = "arm_load_store"
  <2>1. f = LoadStoreForm(i) /\ f # "unmatched"
    BY <1>1, FormIsKnown DEF FormOf
  <2> QED BY <1>1, <2>1, HandlerByClass DEF LoadStoreForm
<1>2. CASE h = "arm_data_processing_shift"
  <2>1. f = ShiftForm(i)
    BY <1>2 DEF FormOf
  <2> QED BY <1>2, <2>1, HandlerByClass DEF ShiftForm
<1>3. CASE h = "arm_data_processing_immediate_msr"
  <2>1. f = ImmediateForm(i)
    BY <1>3 DEF FormOf
  <2> QED BY <1>3, <2>1, HandlerByClass DEF ImmediateForm
<1>4. CASE h \notin {"arm_load_store", "arm_data_processing_shift",
                     "arm_data_processing_immediate_msr"}
  <2>1. f \in {"branch", "swi", "mrs", "block", "refused"}
    <3>1. CASE h = "arm_branch"
      BY <3>1 DEF FormOf, BranchForm
    <3>2. CASE h = "arm_miscellaneous"
      BY <3>2 DEF FormOf, MrsForm
    <3>3. CASE h = "arm_coprocessor_others_swi"
      BY <3>3 DEF FormOf, SwiForm
    <3>4. CASE h = "arm_load_store_multiple"
      BY <3>4 DEF FormOf
    <3>5. CASE h = "arm_coprocessor_load_store"
      BY <3>5 DEF FormOf
    <3> QED BY <1>4, <3>1, <3>2, <3>3, <3>4, <3>5, HandlerByClass
  <2> QED BY <1>4, <2>1, HandlerByClass
<1> QED BY <1>1, <1>2, <1>3, <1>4

(* The fields of the operation, by its bits.                               *)
LEMMA FieldsOfOp ==
    ASSUME NEW i \in Instruction
    PROVE  /\ Bit24(i) \in {0, 1} /\ Bit21(i) \in {0, 1} /\ Bits22_21(i) \in 0 .. 3
           /\ Bit21(i) = Bits22_21(i) % 2
           /\ Bits24_21(i) \in 8 .. 11 /\ Bit20(i) = 0 <=> i.op \in {16, 18, 20, 22}
           /\ Bits24_21(i) \in 8 .. 11 <=> Bits24_23(i) = 2
           /\ i.op \in {18, 22} <=> Bits24_23(i) = 2 /\ Bits21_20(i) = 2
<1>1. i.op \in 0 .. 31
  BY DEF Instruction
<1>2. Bit24(i) \in {0, 1} /\ Bit21(i) \in {0, 1} /\ Bits22_21(i) \in 0 .. 3
  BY <1>1 DEF Bit24, Bit21, Bits22_21, Bit
<1>3. Bit21(i) = Bits22_21(i) % 2
  BY <1>1 DEF Bit21, Bits22_21, Bit
<1>4. Bits24_21(i) \in 8 .. 11 <=> i.op \in 16 .. 23
  BY <1>1 DEF Bits24_21
<1>5. Bits24_23(i) = 2 <=> i.op \in 16 .. 23
  BY <1>1 DEF Bits24_23
<1>6. Bit20(i) = i.op % 2
  BY <1>1 DEF Bit20, Bit
<1>7. i.op \in 16 .. 23 /\ i.op % 2 = 0 <=> i.op \in {16, 18, 20, 22}
  BY <1>1
<1>8. i.op \in {18, 22} <=> i.op \in 16 .. 23 /\ i.op % 4 = 2
  BY <1>1
<1> QED BY <1>2, <1>3, <1>4, <1>5, <1>6, <1>7, <1>8 DEF Bits21_20

(* With what address the memory is accessed.                               *)
LEMMA AddressIsKnown ==
    ASSUME NEW i \in Instruction, HandlerOf(i) # "none",
           ~Refuses(i, FormOf(i, HandlerOf(i)))
    PROVE  LET f == FormOf(i, HandlerOf(i))
           IN  /\ AddressOf(i, HandlerOf(i), f) = "unset"
                     <=> PostIndexedW(i) /\ f \in {"scaled", "half"}
               /\ AddressOf(i, HandlerOf(i), f) # "none"
                     <=> i.class \in {2, 3} \/ Extension(i)
<1> DEFINE f == FormOf(i, HandlerOf(i))
<1>1. f \in {"scaled", "half"} => (SetsAddress(i, f) <=> ~PostIndexedW(i))
  <2>1. CASE f = "scaled"
    BY <2>1, FieldsOfOp DEF SetsAddress, PostIndexedW
  <2>2. CASE f = "half"
    <3>1. SetsAddress(i, f) <=> Bit24(i) = 1 \/ Bits22_21(i) \in {2, 0}
      BY <2>2, FieldsOfOp DEF SetsAddress
    <3>2. Bits22_21(i) \in {2, 0} <=> Bit21(i) = 0
      <4>1. Bits22_21(i) \in {0, 1, 2, 3}
        BY FieldsOfOp
      <4> QED BY <4>1, FieldsOfOp
    <3> QED BY <3>1, <3>2, FieldsOfOp DEF PostIndexedW
  <2> QED BY <2>1, <2>2
<1>2. f \in {"immediate", "register"} => SetsAddress(i, f)
  BY DEF Refuses
<1>3. HandlerOf(i) = "arm_load_store" <=> f \in {"immediate", "register", "scaled", "half"}
  BY FormOfHandler
<1>4. AddressOf(i, HandlerOf(i), f) =
        IF HandlerOf(i) # "arm_load_store" THEN "none"
        ELSE IF SetsAddress(i, f) THEN "set" ELSE "unset"
  BY DEF AddressOf
<1>5. HandlerOf(i) = "arm_load_store" <=> i.class \in {2, 3} \/ Extension(i)
  BY HandlerByClass
<1> HIDE DEF f
<1>6. /\ AddressOf(i, HandlerOf(i), f) = "unset" <=> PostIndexedW(i) /\ f \in {"scaled", "half"}
      /\ AddressOf(i, HandlerOf(i), f) # "none" <=> i.class \in {2, 3} \/ Extension(i)
  BY <1>1, <1>2, <1>3, <1>4, <1>5
<1> QED BY <1>6 DEF f

(* Which comparisons are executed without S.                               *)
LEMMA ComparisonIsKnown ==
    ASSUME NEW i \in Instruction, HandlerOf(i) # "none"
    PROVE  Compares(i, FormOf(i, HandlerOf(i))) /\ Bit20(i) = 0
              <=> i.class = 1 /\ i.op \in {16, 20}
<1> DEFINE f == FormOf(i, HandlerOf(i))
<1>0. i.op \in Int /\ (i.op \in {16, 20} => i.op \notin {18, 22})
  BY DEF Instruction
<1>1. f \in {"by immediate", "by register"} => ~(Bits24_23(i) = 2 /\ Bit20(i) = 0)
  BY FormOfHandler, HandlerByClass
<1>2. f = "rotated" <=> i.class = 1 /\ i.op \notin {18, 22}
  BY FormOfHandler, FieldsOfOp DEF ImmediateForm
<1> HIDE DEF f
<1>3. Compares(i, f) /\ Bit20(i) = 0 <=> i.class = 1 /\ i.op \in {16, 20}
  <2>1. CASE f \in {"by immediate", "by register"}
    <3>1. ~(Bits24_21(i) \in 8 .. 11 /\ Bit20(i) = 0)
      BY <1>1, <2>1, FieldsOfOp
    <3>2. ~(i.class = 1 /\ i.op \in {16, 20})
      BY <1>0, <1>2, <2>1
    <3> QED BY <3>1, <3>2 DEF Compares
  <2>2. CASE f = "rotated"
    <3>1. Compares(i, f) /\ Bit20(i) = 0 <=> i.op \in {16, 18, 20, 22}
      BY <2>2, FieldsOfOp DEF Compares
    <3> QED BY <1>0, <1>2, <2>2, <3>1
  <2>3. CASE f \notin {"by immediate", "by register", "rotated"}
    BY <1>0, <1>2, <2>3 DEF Compares
  <2> QED BY <2>1, <2>2, <2>3
<1> QED BY <1>3 DEF f

(* The handler and the branch belong to the instruction they were chosen   *)
(* for, and an instruction fetched has neither.                            *)
DecodeInv == /\ ins \in Instruction \cup {Blank}
             /\ ended \in {"fetch", "no", "skipped", "undefined", "executed"}
             /\ ended = "fetch" => handler = "none"
             /\ handler # "none" => ins \in Instruction /\ handler = HandlerOf(ins)
             /\ ended \in {"fetch", "no"} => form = "none"
             /\ form # "none" => handler # "none" /\ form = FormOf(ins, handler)
             /\ ended = "executed" => /\ handler # "none" /\ form = FormOf(ins, handler)
                                      /\ ~Refuses(ins, form)
                                      /\ address = AddressOf(ins, handler, form)

LEMMA DecodeInductive == DecodeSpec => []DecodeInv
<1>1. DecodeInit => DecodeInv
  BY DEF DecodeInit, DecodeInv
<1>2. DecodeInv /\ [DecodeNext]_decoding => DecodeInv'
  <2> SUFFICES ASSUME DecodeInv, [DecodeNext]_decoding PROVE DecodeInv'
    OBVIOUS
  <2> USE DEF DecodeInv
  <2>1. ASSUME ended = "fetch", NEW i \in Instruction, Fetch(i) PROVE DecodeInv'
    BY <2>1 DEF Fetch
  <2>2. CASE ConditionFails
    BY <2>2 DEF ConditionFails
  <2>3. CASE Dispatch
    <3>1. ins # Blank
      BY <2>3 DEF Dispatch, Blank
    <3> QED BY <2>3, <3>1 DEF Dispatch
  <2>4. CASE Handle
    BY <2>4 DEF Handle
  <2>5. CASE Over
    BY <2>5 DEF Over
  <2>6. CASE UNCHANGED decoding
    BY <2>6 DEF decoding
  <2> QED BY <2>1, <2>2, <2>3, <2>4, <2>5, <2>6 DEF DecodeNext
<1> QED BY <1>1, <1>2, PTL DEF DecodeSpec

(* Whatever instruction is fetched, for every set of values of bits 11..8: *)
(* arm_execute_instruction hands it to a handler one of whose branches is  *)
(* for it; and inside those branches the accesses to an address that was   *)
(* never set, and the comparisons without S, are exactly the two cases     *)
(* HandlersKnow names (src/arm_instruction.c lines 97-139,                 *)
(* src/arm_load_store.c 104-201, src/arm_data_processing.c 445-448).       *)
THEOREM HandlersAreKnown == DecodeSpec => []HandlersKnow
<1>1. DecodeInv => HandlersKnow
  <2> SUFFICES ASSUME DecodeInv PROVE HandlersKnow
    OBVIOUS
  <2>1. CASE handler = "none"
    BY <2>1 DEF DecodeInv, HandlersKnow
  <2>2. CASE handler # "none"
    <3>1. ins \in Instruction /\ handler = HandlerOf(ins)
      BY <2>2 DEF DecodeInv
    <3>2. form \in {"none", FormOf(ins, handler)}
      BY DEF DecodeInv
    <3>3. ASSUME ended = "executed"
          PROVE  /\ address = "unset" <=> PostIndexedW(ins) /\ form \in {"scaled", "half"}
                 /\ address # "none" <=> ins.class \in {2, 3} \/ Extension(ins)
                 /\ Compares(ins, form) /\ Bit20(ins) = 0
                       <=> ins.class = 1 /\ ins.op \in {16, 20}
      <4>1. /\ form = FormOf(ins, handler) /\ ~Refuses(ins, form)
            /\ address = AddressOf(ins, handler, form)
        BY <3>3 DEF DecodeInv
      <4> QED BY <2>2, <3>1, <4>1, AddressIsKnown, ComparisonIsKnown
    <3> QED BY <2>2, <3>1, <3>2, <3>3, FormIsKnown DEF HandlersKnow
  <2> QED BY <2>1, <2>2
<1> QED BY <1>1, DecodeInductive, PTL

-----------------------------------------------------------------------------
(* Induction up to a bound.                                                *)
LEMMA LeastNumber ==
    ASSUME NEW T, T \subseteq Nat, T # {}
    PROVE  \E x \in T : \A y \in T : ~(y < x)
<1> DEFINE R == OpToRel(<, Nat)
<1>1. IsWellFoundedOn(R, Nat)
  BY NatLessThanWellFounded
<1> HIDE DEF R
<1>2. PICK x \in T : \A y \in T : ~(<<y, x>> \in R)
  BY <1>1, WFMin
<1>3. \A y \in T : <<y, x>> \in R <=> y < x
  BY DEF R, OpToRel
<1> QED BY <1>2, <1>3

LEMMA BoundedInduction ==
    ASSUME NEW N \in Nat, NEW S, 0 \in S, \A n \in 1 .. N : n - 1 \in S => n \in S
    PROVE  \A n \in 0 .. N : n \in S
<1> SUFFICES ASSUME NEW k \in 0 .. N, k \notin S PROVE FALSE
  OBVIOUS
<1> DEFINE Missing == {n \in 0 .. N : n \notin S}
<1>1. Missing \subseteq Nat /\ Missing # {}
  OBVIOUS
<1>2. PICK n \in Missing : \A i \in Missing : ~(i < n)
  BY <1>1, LeastNumber
<1>3. n \in 1 .. N /\ n - 1 \in 0 .. N
  OBVIOUS
<1>4. n - 1 \in S
  BY <1>2, <1>3
<1> QED BY <1>2, <1>3, <1>4

(* Dividing twice is dividing by the product.                              *)
LEMMA Division ==
    ASSUME NEW b \in Nat, b > 0, NEW q \in Nat, NEW r \in 0 .. (b - 1)
    PROVE  /\ (q * b + r) \div b = q
           /\ (q * b + r) % b = r
OBVIOUS

LEMMA QuotientAndRemainder ==
    ASSUME NEW b \in Nat, b > 0, NEW v \in Nat
    PROVE  /\ v \div b \in Nat
           /\ v % b \in 0 .. (b - 1)
           /\ v = (v \div b) * b + (v % b)
<1>1. v \div b \in Int /\ v % b \in 0 .. (b - 1)
  OBVIOUS
<1>2. v = b * (v \div b) + (v % b)
  OBVIOUS
<1>3. v \div b >= 0
  OBVIOUS
<1> QED BY <1>1, <1>2, <1>3

LEMMA DividingTwice ==
    ASSUME NEW b \in Nat, b > 0, NEW c \in Nat, c > 0, NEW v \in Nat
    PROVE  (v \div b) \div c = v \div (c * b)
<1> DEFINE q == v \div b
<1> DEFINE x == q \div c
<1> DEFINE r == v % b
<1> DEFINE s == q % c
<1>1. /\ q \in Nat /\ r \in 0 .. (b - 1) /\ v = q * b + r
  BY QuotientAndRemainder
<1>2. /\ x \in Nat /\ s \in 0 .. (c - 1) /\ q = x * c + s
  BY <1>1, QuotientAndRemainder
<1> HIDE DEF q, x, r, s
<1>3. s * b + r \in 0 .. (c * b - 1)
  <2>1. s * b >= 0 /\ s * b <= (c - 1) * b
    BY <1>2
  <2>2. (c - 1) * b = c * b - b
    OBVIOUS
  <2>3. s * b \in Int /\ c * b \in Int
    BY <1>2
  <2> QED BY <1>1, <2>1, <2>2, <2>3
<1>4. v = x * (c * b) + (s * b + r)
  BY <1>1, <1>2
<1>5. c * b \in Nat /\ c * b > 0
  OBVIOUS
<1>6. v \div (c * b) = x
  BY <1>2, <1>3, <1>4, <1>5, Division
<1> QED BY <1>6 DEF x, q

(* Every set of bits is the bits of a word: WordOf finds one.              *)
Power(n) == 2 ^ n

LEMMA PowerFacts ==
    /\ Width \in Nat /\ Width > 1 /\ Power(0) = 1 /\ SignBit = Power(Width - 1)
    /\ \A n \in 0 .. (Width - 1) : Power(n) \in Nat /\ Power(n) > 0
    /\ \A n \in 1 .. (Width - 1) : Power(n) = 2 * Power(n - 1)
BY WidthAssumption, Zenon DEF Power

IsBit(w, i)  == (w \div Power(i)) % 2 = 1
HasBits(w, S) == \A i \in 0 .. (Width - 1) : IsBit(w, i) <=> i \in S

(* What k bits can hold.                                                   *)
Span(k) == IF k = 0 THEN 1 ELSE 2 * Power(k - 1)
Known(k)  == \A S \in SUBSET (0 .. (k - 1)) : \E w \in 0 .. (Span(k) - 1) : HasBits(w, S)

LEMMA BitsAbove ==
    ASSUME NEW w \in Nat, NEW b \in {0, 1}, NEW i \in 0 .. (Width - 1)
    PROVE  IsBit(2 * w + b, i) <=> IF i = 0 THEN b = 1 ELSE IsBit(w, i - 1)
<1>1. CASE i = 0
  <2>1. (2 * w + b) \div 1 = 2 * w + b /\ (2 * w + b) % 2 = b
    OBVIOUS
  <2> QED BY <1>1, <2>1, PowerFacts DEF IsBit
<1>2. CASE i # 0
  <2>1. i - 1 \in 0 .. (Width - 1) /\ i \in 1 .. (Width - 1)
    BY <1>2, PowerFacts
  <2> DEFINE P == Power(i - 1)
  <2>2. P \in Nat /\ P > 0 /\ Power(i) = 2 * P
    BY <2>1, PowerFacts
  <2> HIDE DEF P
  <2>3. (2 * w + b) \div 2 = w /\ 2 * w + b \in Nat
    OBVIOUS
  <2>4. \A x \in Nat : (x \div 2) \div P = x \div (P * 2)
    BY <2>2, DividingTwice
  <2>5. P * 2 = 2 * P
    BY <2>2
  <2>6. w \div P = (2 * w + b) \div Power(i)
    BY <2>2, <2>3, <2>4, <2>5
  <2> QED BY <1>2, <2>6 DEF IsBit, P
<1> QED BY <1>1, <1>2

LEMMA SetsAreWords ==
    ASSUME NEW S \in SUBSET (0 .. (Width - 1))
    PROVE  \E w \in Number : Bits(w) = S
<1> DEFINE T == {k \in 0 .. Width : Known(k)}
<1>1. 0 \in T
  <2>1. \A i \in 0 .. (Width - 1) : ~IsBit(0, i)
    <3> SUFFICES ASSUME NEW i \in 0 .. (Width - 1) PROVE ~IsBit(0, i)
      OBVIOUS
    <3>1. Power(i) \in Nat /\ Power(i) > 0
      BY PowerFacts
    <3>2. 0 \div Power(i) = 0
      BY <3>1
    <3> QED BY <3>2 DEF IsBit
  <2>2. HasBits(0, {})
    BY <2>1 DEF HasBits
  <2>3. 0 .. (0 - 1) = {} /\ 0 \in 0 .. (Span(0) - 1) /\ SUBSET {} = {{}}
    BY DEF Span
  <2>4. \A U \in SUBSET (0 .. (0 - 1)) : U = {}
    BY <2>3
  <2>5. Known(0)
    BY <2>2, <2>3, <2>4 DEF Known
  <2> QED BY <2>5, PowerFacts
<1>2. ASSUME NEW k \in 1 .. Width, k - 1 \in T PROVE k \in T
  <2>1. k - 1 \in 0 .. (Width - 1) /\ k \in 0 .. Width
    BY PowerFacts
  <2>2. Span(k) = 2 * Span(k - 1) /\ Span(k - 1) \in Nat /\ Span(k - 1) > 0
    <3>1. CASE k = 1
      BY <3>1, PowerFacts DEF Span
    <3>2. CASE k # 1
      <4>1. k - 1 \in 1 .. (Width - 1) /\ (k - 1) - 1 \in 0 .. (Width - 1) /\ k # 0 /\ k - 1 # 0
        BY <2>1, <3>2, PowerFacts
      <4> QED BY <4>1, PowerFacts DEF Span
    <3> QED BY <3>1, <3>2
  <2>3. ASSUME NEW U \in SUBSET (0 .. (k - 1))
        PROVE  \E w \in 0 .. (Span(k) - 1) : HasBits(w, U)
    <3> DEFINE V == {i - 1 : i \in U \ {0}}
               b == IF 0 \in U THEN 1 ELSE 0
    <3>1. V \in SUBSET (0 .. ((k - 1) - 1))
      OBVIOUS
    <3>2. PICK w \in 0 .. (Span(k - 1) - 1) : HasBits(w, V)
      BY <1>2, <3>1 DEF Known
    <3>3. 2 * w + b \in 0 .. (Span(k) - 1) /\ w \in Nat /\ b \in {0, 1}
      BY <2>2
    <3>4. \A i \in 1 .. (Width - 1) : i - 1 \in V <=> i \in U
      OBVIOUS
    <3>5. b = 1 <=> 0 \in U
      OBVIOUS
    <3> HIDE DEF V, b
    <3>6. ASSUME NEW i \in 0 .. (Width - 1) PROVE IsBit(2 * w + b, i) <=> i \in U
      <4>1. CASE i = 0
        BY <3>3, <3>5, <4>1, BitsAbove
      <4>2. CASE i # 0
        <5>1. i - 1 \in 0 .. (Width - 1) /\ i \in 1 .. (Width - 1)
          BY <4>2, PowerFacts
        <5>2. IsBit(w, i - 1) <=> i - 1 \in V
          BY <3>2, <5>1 DEF HasBits
        <5> QED BY <3>3, <3>4, <4>2, <5>1, <5>2, BitsAbove
      <4> QED BY <4>1, <4>2
    <3> QED BY <3>3, <3>6 DEF HasBits
  <2> QED BY <2>1, <2>3 DEF Known
<1> HIDE DEF T
<1>3. Width \in T
  <2>1. \A k \in 0 .. Width : k \in T
    BY <1>1, <1>2, PowerFacts, BoundedInduction
  <2> QED BY <2>1, PowerFacts
<1>4. Span(Width) = Modulus
  BY PowerFacts DEF Span, Modulus
<1>5. PICK w \in Number : HasBits(w, S)
  BY <1>3, <1>4 DEF T, Known, Number
<1>6. Bits(w) = {i \in 0 .. (Width - 1) : IsBit(w, i)}
  BY Zenon DEF Bits, IsBit, Power
<1>7. Bits(w) = S
  BY <1>5, <1>6 DEF HasBits
<1> QED BY <1>7

LEMMA BitwiseAreWords ==
    ASSUME NEW a, NEW b
    PROVE  And(a, b) \in Number /\ Or(a, b) \in Number /\ Eor(a, b) \in Number
<1>1. \A S \in SUBSET (0 .. (Width - 1)) : WordOf(S) \in Number
  BY SetsAreWords DEF WordOf
<1>2. Bits(a) \in SUBSET (0 .. (Width - 1)) /\ Bits(b) \in SUBSET (0 .. (Width - 1))
  BY Zenon DEF Bits
<1> QED BY <1>1, <1>2 DEF And, Or, Eor

LEMMA SumsAreWords ==
    ASSUME NEW a \in Number, NEW b \in Number
    PROVE  Add(a, b) \in Number /\ Sub(a, b) \in Number /\ Not(a) \in Number
BY ModulusFacts DEF Add, Sub, Not, Wrap, Number

Outcomes == [result : Number, C : BOOLEAN, V : BOOLEAN]

LEMMA ComputeIsTyped ==
    ASSUME NEW opcode \in Opcode, NEW a \in Number, NEW b \in Number,
           NEW shifterCarry \in BOOLEAN, NEW f \in Flags
    PROVE  Compute(opcode, a, b, shifterCarry, f) \in Outcomes
<1> DEFINE o == Compute(opcode, a, b, shifterCarry, f)
<1>1. \A v \in Number : \A x, y \in BOOLEAN : Outcome(v, x, y) \in Outcomes
  BY DEF Outcome, Outcomes
<1>2. \A x, y : add_overflow(x, y) \in BOOLEAN /\ sub_overflow(x, y) \in BOOLEAN
                /\ add_carry(x, y) \in BOOLEAN /\ sub_carry(x, y) \in BOOLEAN
  BY DEF add_overflow, sub_overflow, add_carry, sub_carry
<1>3. \A x, y \in Number : SumOf(x, y) \in Outcomes /\ DifferenceOf(x, y) \in Outcomes
  BY <1>1, <1>2, SumsAreWords DEF SumOf, DifferenceOf
<1>4. f.C \in BOOLEAN /\ f.V \in BOOLEAN
  BY DEF Flags
<1>5. \A x, y \in Number : \A c \in BOOLEAN : SumWithCarry(x, y, c) \in Outcomes
  <2> SUFFICES ASSUME NEW x \in Number, NEW y \in Number, NEW c \in BOOLEAN
               PROVE  SumWithCarry(x, y, c) \in Outcomes
    OBVIOUS
  <2> DEFINE tmp == Add(x, y)
             kept == add_carry(x, y) \/ add_carry(tmp, Digit(c))
             twice == ~add_overflow(x, y)
             digit == Digit(IF twice THEN kept ELSE c)
             over == twice => add_overflow(tmp, Digit(kept))
  <2>1. SumWithCarry(x, y, c) = Outcome(Add(tmp, digit), kept, over)
    BY DEF SumWithCarry
  <2>2. kept \in BOOLEAN /\ over \in BOOLEAN
    OBVIOUS
  <2>3. tmp \in Number /\ digit \in Number
    BY SumsAreWords, DigitIsNumber
  <2> HIDE DEF tmp, kept, digit, over
  <2>4. Add(tmp, digit) \in Number
    BY <2>3, SumsAreWords
  <2> QED BY <1>1, <2>1, <2>2, <2>4
<1>6. \A x, y \in Number : \A c \in BOOLEAN : DifferenceWithCarry(x, y, c) \in Outcomes
  <2> SUFFICES ASSUME NEW x \in Number, NEW y \in Number, NEW c \in BOOLEAN
               PROVE  DifferenceWithCarry(x, y, c) \in Outcomes
    OBVIOUS
  <2> DEFINE tmp == Sub(x, y)
             kept == sub_carry(x, y) \/ sub_carry(tmp, Digit(~c))
             twice == ~sub_overflow(x, y)
             digit == Digit(~(IF twice THEN kept ELSE c))
             over == twice => sub_overflow(tmp, Digit(~kept))
  <2>1. DifferenceWithCarry(x, y, c) = Outcome(Sub(tmp, digit), kept, over)
    BY DEF DifferenceWithCarry
  <2>2. kept \in BOOLEAN /\ over \in BOOLEAN
    OBVIOUS
  <2>3. tmp \in Number /\ digit \in Number
    BY SumsAreWords, DigitIsNumber
  <2> HIDE DEF tmp, kept, digit, over
  <2>4. Sub(tmp, digit) \in Number
    BY <2>3, SumsAreWords
  <2> QED BY <1>1, <2>1, <2>2, <2>4
<1>7. \A x, y : And(x, y) \in Number /\ Or(x, y) \in Number /\ Eor(x, y) \in Number
  BY BitwiseAreWords
<1>8. Not(b) \in Number
  BY SumsAreWords
<1>9. CASE opcode \in {"SUB", "CMP", "RSB", "ADD", "CMN"}
  BY <1>3, <1>9 DEF Compute
<1>10. CASE opcode \in {"ADC", "SBC", "RSC"}
  BY <1>4, <1>5, <1>6, <1>10 DEF Compute
<1>11. CASE opcode \in {"AND", "TST", "EOR", "TEQ", "ORR"}
  BY <1>1, <1>4, <1>7, <1>11 DEF Compute
<1>12. CASE opcode \in {"MOV", "BIC", "MVN"}
  BY <1>1, <1>4, <1>7, <1>8, <1>12 DEF Compute
<1> QED BY <1>9, <1>10, <1>11, <1>12 DEF Opcode

(* Type correctness, for every width: no operation leaves a result that is *)
(* no word, and WordOf always finds one (src/arm_data_processing.c lines   *)
(* 45-231).                                                                *)
THEOREM ResultsAreWords == Spec => []TypeOK
<1>1. 0 \in Number /\ NoArguments \in Arguments
  BY ModulusFacts DEF Number, NoArguments, Arguments, Opcode
<1>2. ASSUME Init PROVE TypeOK
  <2>1. [N |-> FALSE, Z |-> FALSE, C |-> FALSE, V |-> FALSE] \in Flags
    BY DEF Flags
  <2>2. flags \in Flags /\ args \in Arguments /\ result \in Number
    BY <1>1, <1>2, <2>1 DEF Init
  <2>3. phase \in {"idle", "called", "computed"} /\ carry \in BOOLEAN
    BY <1>2 DEF Init
  <2> QED BY <2>2, <2>3 DEF TypeOK
<1>3. ASSUME TypeOK, [Next]_vars PROVE TypeOK'
  <2>1. CASE \E arguments \in Arguments : Call(arguments)
    BY <1>3, <2>1 DEF Call, TypeOK, Flags
  <2>2. CASE data_processing
    <3> DEFINE o == Compute(args.opcode, args.a, args.b, args.shifterCarry, flags)
    <3>1. o \in Outcomes
      BY <1>3, ComputeIsTyped DEF TypeOK, Arguments
    <3>2. result' = o.result /\ flags' = (IF args.S THEN FlagsOf(o) ELSE flags)
          /\ phase' = "computed" /\ UNCHANGED <<args, carry>>
      BY <2>2, Zenon DEF data_processing
    <3> HIDE DEF o
    <3>3. FlagsOf(o) \in Flags
      BY <3>1 DEF FlagsOf, Flags, Outcomes
    <3>4. o.result \in Number
      BY <3>1 DEF Outcomes
    <3> QED BY <1>3, <3>2, <3>3, <3>4 DEF TypeOK
  <2>3. CASE Return
    BY <1>1, <1>3, <2>3 DEF Return, TypeOK
  <2>4. CASE UNCHANGED vars
    BY <1>3, <2>4 DEF vars, TypeOK
  <2> QED BY <1>3, <2>1, <2>2, <2>3, <2>4 DEF Next
<1> QED BY <1>2, <1>3, PTL DEF Spec

-----------------------------------------------------------------------------
(* A loop of N rounds that starts with d and goes from c to F[n][c] in     *)
(* round n, and what it has after each.                                    *)
Rounds(F, N, D)   == \A n \in 1 .. N : \A c \in D : F[n][c] \in D
Loop(f, F, N, d)  == f[0] = d /\ \A n \in 1 .. N : f[n] = F[n][f[n - 1]]

(* Such a loop exists, and stays in D.                                     *)
LEMMA BoundedRecursion ==
    ASSUME NEW N \in Nat, NEW D, NEW d \in D, NEW F, Rounds(F, N, D)
    PROVE  \E f \in [0 .. N -> D] : Loop(f, F, N, d)
<1> USE DEF Rounds, Loop
<1> DEFINE Good(k, f) == f \in [0 .. k -> D] /\ f[0] = d /\ \A n \in 1 .. k : f[n] = F[n][f[n - 1]]
           S == {k \in 0 .. N : \E f : Good(k, f)}
<1>1. 0 \in S
  <2>1. Good(0, [n \in 0 .. 0 |-> d])
    OBVIOUS
  <2>2. 0 \in 0 .. N
    OBVIOUS
  <2> HIDE DEF Good
  <2> QED BY <2>1, <2>2
<1>2. ASSUME NEW k \in 1 .. N, k - 1 \in S PROVE k \in S
  <2>1. \E f : Good(k - 1, f)
    <3> HIDE DEF Good
    <3> QED BY <1>2
  <2>2. PICK f : Good(k - 1, f)
    BY <2>1, Zenon
  <2> DEFINE g == [n \in 0 .. k |-> IF n = k THEN F[k][f[k - 1]] ELSE f[n]]
  <2>3. f[k - 1] \in D
    BY <2>2
  <2>4. F[k][f[k - 1]] \in D
    BY <2>3
  <2>5. \A n \in 0 .. (k - 1) : g[n] = f[n] /\ f[n] \in D
    BY <2>2
  <2>6. g \in [0 .. k -> D]
    <3>1. \A n \in 0 .. k : n = k \/ n \in 0 .. (k - 1)
      OBVIOUS
    <3>2. \A n \in 0 .. (k - 1) : f[n] \in D
      BY <2>5
    <3>3. \A n \in 0 .. k : (IF n = k THEN F[k][f[k - 1]] ELSE f[n]) \in D
      BY <2>4, <3>1, <3>2
    <3> QED BY <3>3
  <2>7. g[0] = d
    BY <2>2, <2>5
  <2>8. ASSUME NEW n \in 1 .. k PROVE g[n] = F[n][g[n - 1]]
    <3>1. CASE n = k
      <4>1. g[k] = F[k][f[k - 1]] /\ g[k - 1] = f[k - 1]
        BY <2>5
      <4> HIDE DEF g
      <4> QED BY <3>1, <4>1
    <3>2. CASE n # k
      <4>1. n \in 1 .. (k - 1) /\ n - 1 \in 0 .. (k - 1) /\ n \in 0 .. (k - 1)
        BY <3>2
      <4> HIDE DEF g
      <4> QED BY <2>2, <2>5, <4>1
    <3> QED BY <3>1, <3>2
  <2>9. Good(k, g)
    <3> HIDE DEF g
    <3> QED BY <2>6, <2>7, <2>8
  <2>10. k \in 0 .. N
    OBVIOUS
  <2> HIDE DEF Good
  <2> QED BY <2>9, <2>10
<1>3. N \in S
  <2> HIDE DEF S
  <2>1. \A n \in 0 .. N : n \in S
    BY <1>1, <1>2, BoundedInduction
  <2>2. N \in 0 .. N
    OBVIOUS
  <2> QED BY <2>1, <2>2
<1> QED
  <2>1. \E f : Good(N, f)
    <3> HIDE DEF Good
    <3> QED BY <1>3
  <2> QED BY <2>1

-----------------------------------------------------------------------------
(* The order of the texts, and the table of files.                         *)
LEMMA Ranks ==
    ASSUME NEW f \in Text
    PROVE  Rank(f) \in 1 .. Len(Texts) /\ Texts[Rank(f)] = f
<1>1. \E i \in DOMAIN Texts : Texts[i] = f
  BY DEF Text, Range
<1>2. Rank(f) \in DOMAIN Texts /\ Texts[Rank(f)] = f
  BY <1>1 DEF Rank
<1>3. DOMAIN Texts = 1 .. Len(Texts)
  BY OptionsAssumption
<1> QED BY <1>2, <1>3

(* strcmp is a total order of the texts.                                   *)
LEMMA Ordered ==
    /\ \A f, g \in Text : Before(f, g) \in BOOLEAN /\ ~(Before(f, g) /\ Before(g, f))
    /\ \A f, g \in Text : ~Before(f, g) /\ ~Before(g, f) => f = g
    /\ \A f, g, h \in Text : Before(f, g) /\ ~Before(h, g) => Before(f, h)
    /\ \A f, g, h \in Text : ~Before(g, f) /\ Before(g, h) => Before(f, h)
    /\ \A f, g, h \in Text : ~Before(g, f) /\ ~Before(h, g) => ~Before(h, f)
    /\ \A f \in Text : ~Before(f, f)
<1>1. \A f \in Text : Rank(f) \in Int
  BY Ranks, OptionsAssumption
<1>2. \A f, g \in Text : Rank(f) = Rank(g) => f = g
  BY Ranks
<1> QED BY <1>1, <1>2 DEF Before

(* The order the table is kept in; a name may stand in it twice.           *)
Sorted(table) == /\ table \in Seq(Text)
                 /\ \A i, j \in 1 .. Len(table) : i <= j => ~Before(table[j], table[i])

(* What comes before the place of a name comes before the name.            *)
LEMMA PlaceIsFirst ==
    ASSUME NEW table \in Seq(Text), NEW name \in Text
    PROVE  /\ Place(table, name) \in 1 .. Len(table) + 1
           /\ \A j \in 1 .. Place(table, name) - 1 : Before(table[j], name)
           /\ Place(table, name) <= Len(table) => ~Before(table[Place(table, name)], name)
<1> DEFINE I == {i \in 1 .. Len(table) : ~Before(table[i], name)}
           first == SelectInSeq(table, LAMBDA f : ~Before(f, name))
<1>1. first = IF I # {} THEN Min(I) ELSE 0
  BY DEF SelectInSeq
<1>2. \A i \in 1 .. Len(table) : Before(table[i], name) \in BOOLEAN
  BY Ordered
<1>3. CASE I = {}
  <2>1. Place(table, name) = Len(table) + 1
    BY <1>1, <1>3 DEF Place
  <2> QED BY <1>2, <1>3, <2>1
<1>4. CASE I # {}
  <2>1. I \subseteq Nat
    OBVIOUS
  <2>2. PICK i \in I : \A j \in I : ~(j < i)
    BY <1>4, <2>1, LeastNumber
  <2>3. Min(I) \in I /\ \A j \in I : Min(I) <= j
    <3>1. \A j \in I : i <= j
      BY <2>1, <2>2
    <3> QED BY <2>2, <3>1 DEF Min
  <2>4. Place(table, name) = Min(I)
    BY <1>1, <1>4, <2>3 DEF Place
  <2> DEFINE k == Min(I)
  <2> HIDE DEF k
  <2>5. k \in I /\ \A j \in I : k <= j
    BY <2>3 DEF k
  <2>6. k \in 1 .. Len(table) /\ ~Before(table[k], name)
    BY <2>5
  <2>7. \A j \in 1 .. k - 1 : Before(table[j], name)
    BY <1>2, <2>5
  <2>8. Place(table, name) = k
    BY <2>4 DEF k
  <2> QED BY <2>6, <2>7, <2>8
<1> QED BY <1>3, <1>4

(* An insertion where the code inserts keeps the table sorted.             *)
LEMMA InsertionSorts ==
    ASSUME NEW table, Sorted(table), NEW name \in Text
    PROVE  LET t == InsertAt(table, Place(table, name), name)
           IN  Sorted(t) /\ Len(t) = Len(table) + 1 /\ Range(t) = Range(table) \cup {name}
<1> DEFINE i == Place(table, name)
           n == Len(table)
           t == InsertAt(table, i, name)
<1>1. /\ i \in 1 .. n + 1
      /\ \A j \in 1 .. i - 1 : Before(table[j], name)
      /\ i <= n => ~Before(table[i], name)
  BY PlaceIsFirst DEF Sorted
<1>2. table \in Seq(Text) /\ n \in Nat
  BY DEF Sorted
<1> HIDE DEF i
<1>3. /\ t \in Seq(Text) /\ Len(t) = n + 1
      /\ \A j \in 1 .. i - 1 : t[j] = table[j]
      /\ t[i] = name
      /\ \A j \in i + 1 .. n + 1 : t[j] = table[j - 1]
  <2> DEFINE left == SubSeq(table, 1, i - 1)
             right == SubSeq(table, i, n)
             here == <<name>>
             front == left \o here
  <2>1. /\ left \in Seq(Text) /\ Len(left) = i - 1
        /\ \A j \in 1 .. i - 1 : left[j] = table[j]
    <3>1. /\ left \in Seq(Text)
          /\ Len(left) = IF 1 <= i - 1 THEN (i - 1) - 1 + 1 ELSE 0
          /\ \A j \in 1 .. (i - 1) - 1 + 1 : left[j] = table[1 + j - 1]
      <4>1. \A j \in 1 .. i - 1 : table[j] \in Text
        BY <1>1, <1>2
      <4>2. 1 \in Int /\ i - 1 \in Int
        BY <1>1, <1>2
      <4> QED BY <4>1, <4>2, SubSeqProperties
    <3> QED BY <1>1, <1>2, <3>1
  <2>2. /\ right \in Seq(Text) /\ Len(right) = n - i + 1
        /\ \A j \in 1 .. n - i + 1 : right[j] = table[i + j - 1]
    <3>1. /\ right \in Seq(Text)
          /\ Len(right) = IF i <= n THEN n - i + 1 ELSE 0
          /\ \A j \in 1 .. n - i + 1 : right[j] = table[i + j - 1]
      <4>1. \A j \in i .. n : table[j] \in Text
        BY <1>1, <1>2
      <4>2. i \in Int /\ n \in Int
        BY <1>1, <1>2
      <4> QED BY <4>1, <4>2, SubSeqProperties
    <3> QED BY <1>1, <1>2, <3>1
  <2>3. here \in Seq(Text) /\ Len(here) = 1 /\ here[1] = name
    OBVIOUS
  <2>4. t = front \o right
    BY DEF InsertAt
  <2> HIDE DEF left, right, here, t
  <2>5. /\ front \in Seq(Text) /\ Len(front) = i
        /\ \A j \in 1 .. i : front[j] = IF j <= i - 1 THEN left[j] ELSE here[j - (i - 1)]
    <3>1. /\ front \in Seq(Text) /\ Len(front) = Len(left) + Len(here)
          /\ \A j \in 1 .. Len(left) + Len(here) :
                front[j] = IF j <= Len(left) THEN left[j] ELSE here[j - Len(left)]
      BY <2>1, <2>3, ConcatProperties
    <3> QED BY <1>1, <1>2, <2>1, <2>3, <3>1
  <2> HIDE DEF front
  <2>6. /\ t \in Seq(Text) /\ Len(t) = i + (n - i + 1)
        /\ \A j \in 1 .. i + (n - i + 1) : t[j] = IF j <= i THEN front[j] ELSE right[j - i]
    BY <2>2, <2>4, <2>5, ConcatProperties
  <2>7. \A j \in 1 .. i - 1 : t[j] = table[j]
    BY <1>1, <1>2, <2>1, <2>5, <2>6
  <2>8. t[i] = name
    BY <1>1, <1>2, <2>3, <2>5, <2>6
  <2>9. \A j \in i + 1 .. n + 1 : t[j] = table[j - 1]
    BY <1>1, <1>2, <2>2, <2>6
  <2> QED BY <1>1, <1>2, <2>6, <2>7, <2>8, <2>9
<1>4. /\ \A j \in 1 .. i - 1 : t[j] = table[j]
      /\ t[i] = name
      /\ \A j \in i + 1 .. n + 1 : t[j] = table[j - 1]
  BY <1>3
<1> HIDE DEF t
<1>5. Sorted(t)
  <2> SUFFICES ASSUME NEW a \in 1 .. n + 1, NEW b \in 1 .. n + 1, a <= b
               PROVE  ~Before(t[b], t[a])
    BY <1>3 DEF Sorted
  <2>1. \A c, d \in 1 .. n : c <= d => ~Before(table[d], table[c])
    BY DEF Sorted
  <2>2. \A c \in 1 .. n : table[c] \in Text
    BY <1>2
  <2>3. \A c \in 1 .. i - 1 : ~Before(name, table[c])
    BY <1>1, <1>2, <2>2, Ordered
  <2>4. \A c \in i .. n : ~Before(table[c], name)
    <3>1. ASSUME NEW c \in i .. n PROVE ~Before(table[c], name)
      <4>1. ~Before(table[i], name) /\ ~Before(table[c], table[i])
        BY <1>1, <1>2, <2>1
      <4>2. table[c] \in Text /\ table[i] \in Text
        BY <1>1, <1>2, <2>2
      <4> QED BY <4>1, <4>2, Ordered
    <3> QED BY <3>1
  <2>5. CASE b < i
    <3>1. t[b] = table[b] /\ t[a] = table[a] /\ a \in 1 .. n /\ b \in 1 .. n
      BY <1>1, <1>2, <1>4, <2>5
    <3> QED BY <2>1, <3>1
  <2>6. CASE b = i
    <3>1. t[b] = name /\ (a = i \/ a \in 1 .. i - 1)
      BY <1>1, <1>2, <1>4, <2>6
    <3>2. CASE a = i
      BY <1>4, <3>1, <3>2, Ordered
    <3>3. CASE a \in 1 .. i - 1
      BY <1>4, <2>3, <3>1, <3>3
    <3> QED BY <3>1, <3>2, <3>3
  <2>7. CASE b > i /\ a < i
    <3>1. b \in i + 1 .. n + 1 /\ a \in 1 .. i - 1
      BY <1>1, <1>2, <2>7
    <3>2. t[b] = table[b - 1] /\ t[a] = table[a]
      BY <1>4, <3>1
    <3>3. a \in 1 .. n /\ b - 1 \in 1 .. n /\ a <= b - 1
      BY <1>1, <1>2, <3>1
    <3> QED BY <2>1, <3>2, <3>3
  <2>8. CASE b > i /\ a = i
    <3>1. b - 1 \in i .. n /\ t[b] = table[b - 1] /\ t[a] = name
      BY <1>1, <1>2, <1>4, <2>8
    <3> QED BY <2>4, <3>1
  <2>9. CASE b > i /\ a > i
    <3>1. /\ t[b] = table[b - 1] /\ t[a] = table[a - 1]
          /\ a - 1 \in 1 .. n /\ b - 1 \in 1 .. n /\ a - 1 <= b - 1
      BY <1>1, <1>2, <1>4, <2>9
    <3> QED BY <2>1, <3>1
  <2> QED BY <1>1, <1>2, <2>5, <2>6, <2>7, <2>8, <2>9
<1>6. Range(t) = Range(table) \cup {name}
  <2>1. DOMAIN t = 1 .. n + 1 /\ DOMAIN table = 1 .. n
    BY <1>2, <1>3
  <2>2. \A j \in 1 .. n + 1 : t[j] \in Range(table) \cup {name}
    BY <1>1, <1>2, <1>4, <2>1 DEF Range
  <2>3. \A j \in 1 .. n : table[j] \in Range(t)
    <3>1. \A j \in 1 .. n : \E k \in 1 .. n + 1 : t[k] = table[j]
      <4> TAKE j \in 1 .. n
      <4>1. CASE j < i
        BY <1>1, <1>2, <1>4, <4>1
      <4>2. CASE j >= i
        <5>1. j + 1 \in i + 1 .. n + 1 /\ t[j + 1] = table[j]
          BY <1>1, <1>2, <1>4, <4>2
        <5> QED BY <1>1, <1>2, <5>1
      <4> QED BY <1>1, <1>2, <4>1, <4>2
    <3> QED BY <2>1, <3>1 DEF Range
  <2>4. name \in Range(t)
    BY <1>1, <1>2, <1>4, <2>1 DEF Range
  <2> QED BY <2>1, <2>2, <2>3, <2>4 DEF Range
<1> QED BY <1>3, <1>5, <1>6 DEF t, i

-----------------------------------------------------------------------------
(* The search by halves: what a sorted table holds between from and to.    *)
Lies(table, name, from, to) == \E k \in from .. to : table[k + 1] = name

(* The middle is one of the entries, and not the last.                     *)
LEMMA MiddleIsBetween ==
    ASSUME NEW from \in Nat, NEW to \in Nat, from < to
    PROVE  /\ Middle(from, to) \in from .. to - 1
           /\ Middle(from, to) \in Nat
BY DEF Middle

(* A half that answers what lies in it is enough for the whole.            *)
LEMMA SearchHalves ==
    ASSUME NEW table, Sorted(table), NEW name \in Text, NEW f,
           NEW from \in 0 .. Len(table), NEW to \in -1 .. Len(table) - 1,
           from < to =>
             /\ f[<<Middle(from, to) + 1, to>>] = Lies(table, name, Middle(from, to) + 1, to)
             /\ f[<<from, Middle(from, to) - 1>>] = Lies(table, name, from, Middle(from, to) - 1)
    PROVE  Halves(f, table, name, from, to) = Lies(table, name, from, to)
<1>1. table \in Seq(Text) /\ Len(table) \in Nat
  BY DEF Sorted
<1>2. CASE from > to
  <2>1. from >= to /\ ~(from = to) /\ from .. to = {}
    BY <1>1, <1>2
  <2>2. ~Lies(table, name, from, to)
    BY <2>1 DEF Lies
  <2>3. Halves(f, table, name, from, to) = FALSE
    BY <2>1 DEF Halves
  <2> QED BY <2>2, <2>3 DEF Lies
<1>3. CASE from = to
  <2>1. from >= to /\ from .. to = {from}
    BY <1>1, <1>3
  <2>2. Lies(table, name, from, to) <=> table[from + 1] = name
    BY <2>1 DEF Lies
  <2>3. Halves(f, table, name, from, to) = (table[from + 1] = name)
    BY <1>3, <2>1 DEF Halves
  <2> QED BY <2>2, <2>3 DEF Lies
<1>4. CASE from < to
  <2> DEFINE middle == Middle(from, to)
  <2>1. middle \in from .. to - 1 /\ middle + 1 \in 1 .. Len(table)
    BY <1>1, <1>4, MiddleIsBetween
  <2> HIDE DEF middle
  <2>2. \A k \in from .. to : k \in Int /\ k + 1 \in 1 .. Len(table) /\ table[k + 1] \in Text
    BY <1>1, <1>4
  <2>3. \A k \in middle .. to : ~Before(table[k + 1], table[middle + 1])
    BY <1>1, <2>1 DEF Sorted
  <2>4. \A k \in from .. middle : ~Before(table[middle + 1], table[k + 1])
    BY <1>1, <2>1 DEF Sorted
  <2>5. table[middle + 1] \in Text
    BY <1>1, <2>1
  <2>6. CASE Before(table[middle + 1], name)
    <3>1. \A k \in from .. middle : table[k + 1] # name
      BY <2>1, <2>2, <2>4, <2>6
    <3>2. Lies(table, name, from, to) = Lies(table, name, middle + 1, to)
      BY <2>1, <2>2, <3>1 DEF Lies
    <3>3. Halves(f, table, name, from, to) = f[<<middle + 1, to>>]
      BY <1>1, <1>4, <2>6 DEF Halves, middle
    <3> QED BY <1>4, <3>2, <3>3 DEF middle
  <2>7. CASE ~Before(table[middle + 1], name) /\ Before(name, table[middle + 1])
    <3>1. \A k \in middle .. to : table[k + 1] # name
      BY <2>1, <2>2, <2>3, <2>7
    <3>2. Lies(table, name, from, to) = Lies(table, name, from, middle - 1)
      BY <2>1, <2>2, <3>1 DEF Lies
    <3>3. Halves(f, table, name, from, to) = f[<<from, middle - 1>>]
      BY <1>1, <1>4, <2>7 DEF Halves, middle
    <3> QED BY <1>4, <3>2, <3>3 DEF middle
  <2>8. CASE ~Before(table[middle + 1], name) /\ ~Before(name, table[middle + 1])
    <3>1. table[middle + 1] = name
      BY <2>5, <2>8, Ordered
    <3>2. Lies(table, name, from, to) = TRUE
      BY <2>1, <3>1 DEF Lies
    <3>3. Halves(f, table, name, from, to) = TRUE
      BY <1>1, <1>4, <2>8 DEF Halves, middle
    <3> QED BY <3>2, <3>3
  <2> QED BY <2>6, <2>7, <2>8
<1> QED BY <1>1, <1>2, <1>3, <1>4

(* A search of a sorted table finds a name exactly if it is there.         *)
LEMMA SearchFinds ==
    ASSUME NEW table, Sorted(table), NEW name \in Text
    PROVE  is_debugged(table, name) <=> name \in Range(table)
<1> DEFINE n == Len(table)
           From == 0 .. n
           To == -1 .. n - 1
           Eq(f) == f = [s \in From \X To |-> Halves(f, table, name, s[1], s[2])]
           found == CHOOSE f : Eq(f)
           held == [s \in From \X To |-> Lies(table, name, s[1], s[2])]
<1>1. n \in Nat /\ DOMAIN table = 1 .. n
  BY DEF Sorted
<1>2. is_debugged(table, name) = found[<<0, n - 1>>]
  BY DEF is_debugged, Search, Halves
<1>3. \A from \in From, to \in To : from < to =>
         /\ Middle(from, to) + 1 \in From /\ Middle(from, to) - 1 \in To
         /\ to - (Middle(from, to) + 1) < to - from /\ (Middle(from, to) - 1) - from < to - from
  <2> TAKE from \in From, to \in To
  <2> HAVE from < to
  <2>1. from \in Nat /\ to \in Nat
    BY <1>1
  <2>2. Middle(from, to) \in from .. to - 1
    BY <2>1, MiddleIsBetween
  <2> QED BY <1>1, <2>2
<1>4. Eq(held)
  <2>1. \A from \in From, to \in To :
          Halves(held, table, name, from, to) = Lies(table, name, from, to)
    <3> TAKE from \in From, to \in To
    <3>1. from < to =>
            /\ held[<<Middle(from, to) + 1, to>>] = Lies(table, name, Middle(from, to) + 1, to)
            /\ held[<<from, Middle(from, to) - 1>>] = Lies(table, name, from, Middle(from, to) - 1)
      BY <1>3
    <3> HIDE DEF held
    <3> QED BY <3>1, SearchHalves
  <2> QED BY <2>1
<1>5. Eq(found)
  <2> HIDE DEF Eq
  <2> QED BY <1>4
<1>6. \A from \in From, to \in To : found[<<from, to>>] = Halves(found, table, name, from, to)
  <2> HIDE DEF found
  <2> QED BY <1>5
<1> HIDE DEF found
<1> DEFINE S == {k \in 0 .. n : \A from \in From, to \in To :
                   to - from <= k => found[<<from, to>>] = Lies(table, name, from, to)}
<1>7. 0 \in S
  <2>1. ASSUME NEW from \in From, NEW to \in To, to - from <= 0
        PROVE  found[<<from, to>>] = Lies(table, name, from, to)
    <3>1. ~(from < to)
      BY <1>1, <2>1
    <3> QED BY <1>6, <3>1, SearchHalves
  <2> QED BY <1>1, <2>1
<1>8. ASSUME NEW k \in 1 .. n, k - 1 \in S PROVE k \in S
  <2>1. ASSUME NEW from \in From, NEW to \in To, to - from <= k
        PROVE  found[<<from, to>>] = Lies(table, name, from, to)
    <3>1. ASSUME from < to
          PROVE  /\ found[<<Middle(from, to) + 1, to>>] = Lies(table, name, Middle(from, to) + 1, to)
                 /\ found[<<from, Middle(from, to) - 1>>] = Lies(table, name, from, Middle(from, to) - 1)
      <4>1. /\ Middle(from, to) + 1 \in From /\ Middle(from, to) - 1 \in To
            /\ to - (Middle(from, to) + 1) <= k - 1 /\ (Middle(from, to) - 1) - from <= k - 1
        <5>1. /\ Middle(from, to) + 1 \in From /\ Middle(from, to) - 1 \in To
              /\ to - (Middle(from, to) + 1) < to - from
              /\ (Middle(from, to) - 1) - from < to - from
          BY <1>3, <3>1
        <5> QED BY <1>1, <2>1, <5>1
      <4> QED BY <1>8, <4>1
    <3> QED BY <1>6, <3>1, SearchHalves
  <2> QED BY <2>1
<1>9. n \in S
  <2> HIDE DEF S
  <2>1. \A k \in 0 .. n : k \in S
    BY <1>1, <1>7, <1>8, BoundedInduction
  <2> QED BY <1>1, <2>1
<1>10. found[<<0, n - 1>>] = Lies(table, name, 0, n - 1)
  <2>1. 0 \in From /\ n - 1 \in To /\ (n - 1) - 0 <= n
    BY <1>1
  <2> QED BY <1>9, <2>1
<1>11. Lies(table, name, 0, n - 1) <=> name \in Range(table)
  <2>1. ASSUME Lies(table, name, 0, n - 1) PROVE name \in Range(table)
    BY <1>1, <2>1 DEF Lies, Range
  <2>2. ASSUME name \in Range(table) PROVE Lies(table, name, 0, n - 1)
    <3>1. PICK k \in 1 .. n : table[k] = name
      BY <1>1, <2>2 DEF Range
    <3>2. k - 1 \in 0 .. n - 1 /\ table[(k - 1) + 1] = name
      BY <1>1, <3>1
    <3> QED BY <3>2 DEF Lies
  <2> QED BY <2>1, <2>2
<1> QED BY <1>2, <1>10, <1>11

-----------------------------------------------------------------------------
(* What has been read of a line, and what is left.                         *)
OptArgs == Text \cup {Unset}
Progress == [asked : SUBSET (Letters \X OptArgs), last : [Single -> OptArgs],
             waits : Letters \cup {Unset}]

(* The parts of a word.                                                    *)
LEMMA WordFields ==
    ASSUME NEW w \in Words
    PROVE  /\ w.form \in {"long", "short", "word"} /\ w.text \in Text /\ w.arg \in OptArgs
           /\ w.opt \in Letters \cup {Unset} /\ (w.form = "word" <=> w.opt = Unset)
           /\ Takes(w) => w.opt \in Letters
           /\ w.arg # Unset => Takes(w)
BY OptionsAssumption DEF Letters, OptArgs, Takes, LongTakes, ShortTakes

(* The usage text and the option tables agree on an option that is not     *)
(* --trace-state bare.                                                     *)
LEMMA TablesAgree ==
    ASSUME NEW w \in Words, w.opt \in Letters, ~Bare(w)
    PROVE  w.opt \in Described /\ w.arg = Unset <=> Takes(w) /\ w.arg = Unset
<1>1. w.form \in {"long", "short"}
  BY WordFields, OptionsAssumption
<1> QED BY <1>1 DEF Bare, Described, Takes, LongTakes, ShortTakes

(* What is asked is an option with an argument.                            *)
LEMMA AskingIsTyped ==
    ASSUME NEW before \in Progress, NEW o \in Letters, NEW a \in OptArgs
    PROVE  Asking(before, o, a) \in Progress
BY DEF Asking, Progress, OptArgs

(* The next word is read whatever was read before.                         *)
LEMMA ReadIsTyped ==
    ASSUME NEW w \in Words, NEW before \in Progress
    PROVE  Read(w, before) \in Progress
<1>1. CASE before.waits # Unset
  <2>1. before.waits \in Letters /\ w.text \in OptArgs
    BY <1>1, WordFields DEF Progress, OptArgs
  <2> QED BY <1>1, <2>1, AskingIsTyped DEF Read
<1>2. CASE before.waits = Unset /\ w.form = "word"
  BY <1>2 DEF Read
<1>3. CASE before.waits = Unset /\ w.form # "word" /\ w.opt \in Described /\ w.arg = Unset
  <2>1. Read(w, before) = [before EXCEPT !.waits = w.opt]
    BY <1>3 DEF Read
  <2> QED BY <1>3, <2>1, WordFields DEF Progress
<1>4. CASE before.waits = Unset /\ w.form # "word" /\ ~(w.opt \in Described /\ w.arg = Unset)
  <2>1. w.opt \in Letters /\ w.arg \in OptArgs
    BY <1>4, WordFields
  <2> QED BY <1>4, <2>1, AskingIsTyped DEF Read
<1> QED BY <1>1, <1>2, <1>3, <1>4

(* The reading of a line is the loop over its words.                       *)
LEMMA ReadingIs ==
    ASSUME NEW line \in Seq(Words)
    PROVE  /\ \A i \in 0 .. Len(line) : Reading(line)[i] \in Progress
           /\ Reading(line)[0] = NothingAsked
           /\ \A i \in 1 .. Len(line) : Reading(line)[i] = Read(line[i], Reading(line)[i - 1])
<1> DEFINE n == Len(line)
           Round(i, c) == Read(line[i], c)
           Eq(f) == f = [i \in 0 .. n |-> IF i = 0 THEN NothingAsked
                                          ELSE Round(i, f[i - 1])]
           read == CHOOSE f : Eq(f)
           F == [i \in 1 .. n |-> [c \in Progress |-> Round(i, c)]]
<1>1. Reading(line) = read
  BY DEF Reading
<1>2. n \in Nat /\ NothingAsked \in Progress
  BY DEF NothingAsked, Progress, OptArgs
<1>3. \A i \in 1 .. n : \A c \in Progress : Round(i, c) \in Progress
  <2>1. \A i \in 1 .. n : line[i] \in Words
    OBVIOUS
  <2> QED BY <2>1, ReadIsTyped
<1> HIDE DEF Round
<1>4. \A i \in 1 .. n : \A c \in Progress : F[i][c] = Round(i, c) /\ F[i][c] \in Progress
  BY <1>3
<1>5. PICK g \in [0 .. n -> Progress] : Loop(g, F, n, NothingAsked)
  <2> HIDE DEF F, Eq, read, n
  <2>1. Rounds(F, n, Progress)
    BY <1>4 DEF Rounds
  <2> QED BY <1>2, <2>1, BoundedRecursion
<1>6. g[0] = NothingAsked /\ \A i \in 1 .. n : g[i - 1] \in Progress /\ g[i] = Round(i, g[i - 1])
  <2>1. \A i \in 1 .. n : i - 1 \in 0 .. n
    BY <1>2
  <2> HIDE DEF F
  <2> QED BY <1>4, <1>5, <2>1 DEF Loop
<1>7. Eq(g)
  <2>1. \A i \in 0 .. n : g[i] = IF i = 0 THEN NothingAsked
                                 ELSE Round(i, g[i - 1])
    <3>1. \A i \in 0 .. n : i = 0 \/ i \in 1 .. n
      BY <1>2
    <3> QED BY <1>6, <3>1
  <2> QED BY <2>1
<1>8. Eq(read)
  <2> HIDE DEF Eq
  <2> QED BY <1>7
<1> HIDE DEF read
<1>9. read[0] = NothingAsked /\ \A i \in 1 .. n : read[i] = Round(i, read[i - 1])
  <2>1. \A i \in 1 .. n : i \in 0 .. n /\ i # 0
    BY <1>2
  <2>2. 0 \in 0 .. n
    BY <1>2
  <2> QED BY <1>8, <2>1, <2>2
<1>10. \A i \in 0 .. n : read[i] \in Progress
  <2> DEFINE S == {i \in 0 .. n : read[i] \in Progress}
  <2>1. 0 \in S
    BY <1>2, <1>9
  <2>2. \A i \in 1 .. n : i - 1 \in S => i \in S
    <3> TAKE i \in 1 .. n
    <3> HAVE i - 1 \in S
    <3>1. i \in 0 .. n /\ read[i] = Round(i, read[i - 1]) /\ read[i - 1] \in Progress
      BY <1>2, <1>9
    <3> QED BY <1>3, <3>1
  <2> HIDE DEF S
  <2>3. \A i \in 0 .. n : i \in S
    BY <1>2, <2>1, <2>2, BoundedInduction
  <2> QED BY <2>3 DEF S
<1> QED BY <1>1, <1>9, <1>10 DEF Round

(* An option that is taken is the next that is read, with its argument.    *)
LEMMA NextWord ==
    ASSUME NEW line \in Seq(Words), NEW i \in 0 .. Len(line),
           NEW left, left = SubSeq(line, i + 1, Len(line)), left # <<>>
    PROVE  /\ i + 1 \in 1 .. Len(line) /\ Head(left) = line[i + 1] /\ line[i + 1] \in Words
           /\ Tail(left) = SubSeq(line, i + 2, Len(line))
<1>1. Len(line) \in Nat
  OBVIOUS
<1>2. i < Len(line)
  <2>1. CASE i = Len(line)
    <3>1. Len(line) < i + 1 /\ i + 1 \in Int /\ Len(line) \in Int
      BY <1>1, <2>1
    <3> QED BY <3>1, SubSeqEmpty
  <2> QED BY <1>1, <2>1
<1>3. i + 1 \in 1 .. Len(line) /\ Len(line) \in i + 1 .. Len(line) /\ i + 2 = (i + 1) + 1
  BY <1>1, <1>2
<1>4. Head(left) = line[i + 1] /\ Tail(left) = SubSeq(line, (i + 1) + 1, Len(line))
  BY <1>3, HeadTailOfSubSeq
<1>5. line[i + 1] \in Words
  BY <1>3
<1> QED BY <1>3, <1>4, <1>5

(* The line has been read to i, between two options: the rest is left.     *)
ReadTo(line, left, i) == left = SubSeq(line, i + 1, Len(line)) /\ Reading(line)[i].waits = Unset

(* A word that is no option asks for nothing.                              *)
LEMMA WordIsRead ==
    ASSUME NEW line \in Seq(Words), NEW i \in 0 .. Len(line),
           NEW left, ReadTo(line, left, i), left # <<>>, Head(left).form = "word"
    PROVE  \E j \in 0 .. Len(line) : /\ ReadTo(line, Tail(left), j)
                                     /\ Reading(line)[j] = Reading(line)[i]
<1>1. /\ i + 1 \in 1 .. Len(line) /\ Head(left) = line[i + 1]
      /\ Tail(left) = SubSeq(line, i + 2, Len(line))
  BY NextWord DEF ReadTo
<1>2. i + 1 \in 0 .. Len(line) /\ (i + 1) + 1 = i + 2 /\ (i + 1) - 1 = i
  BY <1>1
<1>3. Reading(line)[i + 1] = Reading(line)[i]
  <2>1. Reading(line)[i + 1] = Read(line[i + 1], Reading(line)[(i + 1) - 1])
    BY <1>1, ReadingIs
  <2> QED BY <1>1, <1>2, <2>1 DEF Read, ReadTo
<1>4. ReadTo(line, Tail(left), i + 1)
  BY <1>1, <1>2, <1>3 DEF ReadTo
<1> QED BY <1>2, <1>3, <1>4

(* The argument an option is taken with.                                   *)
LEMMA ArgumentIsText ==
    ASSUME NEW line \in Seq(Words), NEW i \in 0 .. Len(line),
           NEW left, left = SubSeq(line, i + 1, Len(line)), left # <<>>,
           Head(left).opt \in Letters, ~Incomplete(Head(left), Tail(left))
    PROVE  /\ Head(left) \in Words
           /\ optarg(Head(left), Tail(left)) \in OptArgs
           /\ Takes(Head(left)) => optarg(Head(left), Tail(left)) \in Text
           /\ ~Takes(Head(left)) => optarg(Head(left), Tail(left)) = Unset
<1> DEFINE w == Head(left)
           rest == Tail(left)
<1>1. i + 1 \in 1 .. Len(line) /\ w \in Words /\ rest = SubSeq(line, (i + 1) + 1, Len(line))
  <2>1. (i + 1) + 1 = i + 2
    OBVIOUS
  <2> QED BY <2>1, NextWord
<1>2. CASE Takes(w) /\ w.arg = Unset
  <2>1. rest # <<>> /\ i + 1 \in 0 .. Len(line)
    BY <1>1, <1>2 DEF Incomplete
  <2>2. Head(rest) \in Words
    BY <1>1, <2>1, NextWord
  <2> QED BY <1>1, <1>2, <2>2, WordFields DEF optarg, OptArgs
<1>3. CASE ~(Takes(w) /\ w.arg = Unset)
  BY <1>1, <1>3, WordFields DEF optarg, OptArgs
<1> QED BY <1>2, <1>3

(* An option asks for itself with its argument, attached or the next word. *)
LEMMA OptionIsRead ==
    ASSUME NEW line \in Seq(Words), AsInUsage(line), NEW i \in 0 .. Len(line),
           NEW left, ReadTo(line, left, i), left # <<>>, Head(left).opt \in Letters,
           ~Incomplete(Head(left), Tail(left))
    PROVE  \E j \in 0 .. Len(line) :
              /\ ReadTo(line, Left(Head(left), Tail(left)), j)
              /\ Reading(line)[j] =
                    Asking(Reading(line)[i], Head(left).opt, optarg(Head(left), Tail(left)))
<1> DEFINE w == Head(left)
           rest == Tail(left)
           n == Len(line)
           got(k) == Reading(line)[k]
<1>1. /\ i + 1 \in 1 .. n /\ w = line[i + 1] /\ w \in Words
      /\ rest = SubSeq(line, i + 2, n)
  BY NextWord DEF ReadTo
<1>2. i + 1 \in 0 .. n /\ (i + 1) + 1 = i + 2 /\ (i + 1) - 1 = i
  BY <1>1
<1>3. got(i).waits = Unset /\ got(i) \in Progress
  BY ReadingIs DEF ReadTo
<1>4. got(i + 1) = Read(w, got(i))
  <2>1. Reading(line)[i + 1] = Read(line[i + 1], Reading(line)[(i + 1) - 1])
    BY <1>1, ReadingIs
  <2> QED BY <1>1, <1>2, <2>1
<1>5. w.form # "word" /\ w.text \in Text /\ w.arg \in OptArgs /\ Unset \notin Letters
  <2>1. Unset \notin Letters
    BY OptionsAssumption
  <2> QED BY <1>1, <2>1, WordFields
<1>a. w.opt \in Described /\ w.arg = Unset <=> Takes(w) /\ w.arg = Unset
  <2>1. ~Bare(w)
    BY <1>1 DEF AsInUsage
  <2> QED BY <1>1, <2>1, TablesAgree
<1>6. CASE ~(Takes(w) /\ w.arg = Unset)
  <2>1. optarg(w, rest) = w.arg /\ Left(w, rest) = rest
    BY <1>1, <1>6, WordFields DEF optarg, Left
  <2>2. got(i + 1) = Asking(got(i), w.opt, w.arg)
    BY <1>3, <1>4, <1>5, <1>6, <1>a DEF Read
  <2>3. got(i + 1).waits = Unset
    BY <2>2 DEF Asking
  <2>4. ReadTo(line, rest, i + 1)
    BY <1>1, <1>2, <2>3 DEF ReadTo
  <2> QED BY <1>2, <2>1, <2>2, <2>4
<1>7. CASE Takes(w) /\ w.arg = Unset
  <2>1. rest # <<>>
    BY <1>7 DEF Incomplete
  <2>2. /\ i + 2 \in 1 .. n /\ Head(rest) = line[i + 2] /\ line[i + 2] \in Words
        /\ Tail(rest) = SubSeq(line, i + 3, n)
    <3>1. i + 1 \in 0 .. n /\ rest = SubSeq(line, (i + 1) + 1, n)
      BY <1>1, <1>2
    <3>2. /\ (i + 1) + 1 \in 1 .. n /\ Head(rest) = line[(i + 1) + 1]
          /\ line[(i + 1) + 1] \in Words /\ Tail(rest) = SubSeq(line, (i + 1) + 2, n)
      BY <2>1, <3>1, NextWord
    <3>3. (i + 1) + 1 = i + 2 /\ (i + 1) + 2 = i + 3
      BY <1>1
    <3> QED BY <3>2, <3>3
  <2> DEFINE a == line[i + 2].text
  <2>3. optarg(w, rest) = a /\ Left(w, rest) = Tail(rest)
    BY <1>7, <2>2 DEF optarg, Left
  <2>4. got(i + 1) = [got(i) EXCEPT !.waits = w.opt]
    BY <1>3, <1>4, <1>5, <1>7, <1>a DEF Read
  <2>5. /\ got(i + 1).asked = got(i).asked /\ got(i + 1).last = got(i).last
        /\ got(i + 1).waits = w.opt /\ w.opt # Unset
    BY <1>3, <1>5, <2>4, WordFields DEF Progress
  <2>6. got(i + 2) = Read(line[i + 2], got(i + 1))
    <3>1. Reading(line)[i + 2] = Read(line[i + 2], Reading(line)[(i + 2) - 1])
      BY <2>2, ReadingIs
    <3>2. (i + 2) - 1 = i + 1
      BY <1>1
    <3> QED BY <3>1, <3>2
  <2>7. got(i + 2) = Asking(got(i), w.opt, a)
    BY <2>5, <2>6 DEF Read, Asking
  <2>8. i + 2 \in 0 .. n /\ (i + 2) + 1 = i + 3
    BY <1>1, <2>2
  <2>9. ReadTo(line, Tail(rest), i + 2)
    <3>1. got(i + 2).waits = Unset
      BY <2>7 DEF Asking
    <3> QED BY <2>2, <2>8, <3>1 DEF ReadTo
  <2> HIDE DEF a, got
  <2>11. \E j \in 0 .. n : /\ ReadTo(line, Left(w, rest), j)
                          /\ got(j) = Asking(got(i), w.opt, optarg(w, rest))
    BY <2>3, <2>7, <2>8, <2>9
  <2> QED BY <2>11 DEF got
<1> QED BY <1>6, <1>7

-----------------------------------------------------------------------------
(* What the settings are when D has been asked for.                        *)
HoldFor(files, modes, on, D) ==
    /\ Sorted(files) /\ Len(files) <= MAX_FILES_NUMBER
    /\ \A name \in Range(files) : <<"d", name>> \in D
    /\ Len(files) < MAX_FILES_NUMBER =>
          \A name \in Text : <<"d", name>> \in D => name \in Range(files)
    /\ modes = {m \in ModeNames : <<"s", m>> \in D}
    /\ "state" \in on <=> modes # {}
    /\ \A o \in DOMAIN TraceFlag : TraceFlag[o] \in on <=> <<o, Unset>> \in D

(* And the ports and the file, when last says how each was asked for last. *)
PortFor(a) == IF a = Unset THEN 0 ELSE Port(a)

LastHold(gdb, irq, file, last) ==
    gdb = PortFor(last["g"]) /\ irq = PortFor(last["i"]) /\ file = last["t"]

(* Noting one more option.                                                 *)
Noted(last, o, a) == [k \in Single |-> IF k = o THEN a ELSE last[k]]

(* The settings of the start are those of no option.                       *)
LEMMA NothingHeld == HoldFor(<<>>, {}, {}, {}) /\ LastHold(0, 0, Unset, NothingAsked.last)
<1>1. Sorted(<<>>)
  BY DEF Sorted
<1>2. Len(<<>>) = 0 /\ Range(<<>>) = {}
  BY DEF Range
<1>3. LastHold(0, 0, Unset, NothingAsked.last)
  BY DEF LastHold, PortFor, NothingAsked, Single
<1> QED BY <1>1, <1>2, <1>3, OptionsAssumption DEF HoldFor

(* The flags of the three options that set one.                            *)
LEMMA TraceFlags ==
    /\ DOMAIN TraceFlag = {"r", "m", "p"}
    /\ \A o \in DOMAIN TraceFlag : TraceFlag[o] \in {"registers", "memory", "position"}
    /\ \A o, k \in DOMAIN TraceFlag : TraceFlag[o] = TraceFlag[k] => o = k
BY DEF TraceFlag

(* An option that sets a flag sets that one.                               *)
LEMMA FlagAsked ==
    ASSUME NEW files, NEW modes, NEW on, NEW D, HoldFor(files, modes, on, D),
           NEW o \in DOMAIN TraceFlag
    PROVE  HoldFor(files, modes, on \cup {TraceFlag[o]}, D \cup {<<o, Unset>>})
<1> DEFINE E == D \cup {<<o, Unset>>}
           set == on \cup {TraceFlag[o]}
<1>1. \A x : /\ <<"d", x>> \in E <=> <<"d", x>> \in D
             /\ <<"s", x>> \in E <=> <<"s", x>> \in D
  BY TraceFlags
<1>2. "state" \in set <=> "state" \in on
  BY TraceFlags
<1>3. \A k \in DOMAIN TraceFlag : TraceFlag[k] \in set <=> <<k, Unset>> \in E
  BY TraceFlags DEF HoldFor
<1> HIDE DEF E, set
<1>4. HoldFor(files, modes, set, E)
  BY <1>1, <1>2, <1>3 DEF HoldFor
<1> QED BY <1>4 DEF E, set

(* An option that is neither a flag, a file nor a mode changes none.       *)
LEMMA OtherAsked ==
    ASSUME NEW files, NEW modes, NEW on, NEW D, HoldFor(files, modes, on, D),
           NEW o \in {"t", "h", "g", "i"}, NEW a
    PROVE  HoldFor(files, modes, on, D \cup {<<o, a>>})
<1> DEFINE E == D \cup {<<o, a>>}
<1>1. \A x : /\ <<"d", x>> \in E <=> <<"d", x>> \in D
             /\ <<"s", x>> \in E <=> <<"s", x>> \in D
  OBVIOUS
<1>2. \A k \in DOMAIN TraceFlag : <<k, Unset>> \in E <=> <<k, Unset>> \in D
  BY TraceFlags
<1> HIDE DEF E
<1>3. HoldFor(files, modes, on, E)
  BY <1>1, <1>2 DEF HoldFor
<1> QED BY <1>3 DEF E

(* A mode is printed if it is one, and the state is then traced.           *)
LEMMA ModeAsked ==
    ASSUME NEW files, NEW modes, NEW on, NEW D, HoldFor(files, modes, on, D), NEW a
    PROVE  LET mode == arm_get_mode_number(a)
           IN  HoldFor(files, modes \cup ({mode} \ {"-1"}),
                       IF mode = "-1" THEN on ELSE on \cup {"state"}, D \cup {<<"s", a>>})
<1> DEFINE mode == arm_get_mode_number(a)
           E == D \cup {<<"s", a>>}
           after == modes \cup ({mode} \ {"-1"})
           set == IF mode = "-1" THEN on ELSE on \cup {"state"}
<1>1. \A x : /\ <<"d", x>> \in E <=> <<"d", x>> \in D
             /\ <<"s", x>> \in E <=> <<"s", x>> \in D \/ x = a
  OBVIOUS
<1>2. "-1" \notin ModeNames
  BY DEF ModeNames
<1>5. \A k \in DOMAIN TraceFlag : /\ <<k, Unset>> \in E <=> <<k, Unset>> \in D
                                  /\ TraceFlag[k] \in set <=> TraceFlag[k] \in on
  BY TraceFlags
<1>3. CASE a \in ModeNames
  <2>1. mode = a /\ mode # "-1"
    BY <1>2, <1>3 DEF arm_get_mode_number
  <2>2. after = modes \cup {a} /\ set = on \cup {"state"}
    BY <2>1
  <2>3. after = {m \in ModeNames : <<"s", m>> \in E}
    BY <1>1, <1>3, <2>2 DEF HoldFor
  <2>4. "state" \in set /\ after # {}
    BY <2>2
  <2> HIDE DEF E, set, after
  <2>5. HoldFor(files, after, set, E)
    BY <1>1, <1>5, <2>3, <2>4 DEF HoldFor
  <2> QED BY <2>5 DEF E, set, after
<1>4. CASE a \notin ModeNames
  <2>1. mode = "-1"
    BY <1>4 DEF arm_get_mode_number
  <2>2. after = modes /\ set = on
    BY <2>1
  <2>3. modes = {m \in ModeNames : <<"s", m>> \in E}
    BY <1>1, <1>4 DEF HoldFor
  <2> HIDE DEF E, set, after
  <2>5. HoldFor(files, modes, on, E)
    BY <1>1, <1>5, <2>2, <2>3 DEF HoldFor
  <2> QED BY <2>2, <2>5 DEF E, set, after
<1> QED BY <1>3, <1>4

(* A file is in the table, or the table is full.                           *)
LEMMA FileAsked ==
    ASSUME NEW files, NEW modes, NEW on, NEW D, HoldFor(files, modes, on, D),
           NEW name \in Text, ~Overflows(files, name)
    PROVE  HoldFor(add_debug_to(files, name), modes, on, D \cup {<<"d", name>>})
<1> DEFINE E == D \cup {<<"d", name>>}
           t == add_debug_to(files, name)
<1>1. \A x : /\ <<"s", x>> \in E <=> <<"s", x>> \in D
             /\ <<"d", x>> \in E <=> <<"d", x>> \in D \/ x = name
  OBVIOUS
<1>2. files \in Seq(Text) /\ Len(files) \in Nat /\ MAX_FILES_NUMBER \in Nat
      /\ Len(files) <= MAX_FILES_NUMBER
  BY OptionsAssumption DEF HoldFor, Sorted
<1>3. /\ modes = {m \in ModeNames : <<"s", m>> \in E} /\ ("state" \in on <=> modes # {})
      /\ \A o \in DOMAIN TraceFlag : TraceFlag[o] \in on <=> <<o, Unset>> \in E
  BY <1>1, TraceFlags DEF HoldFor
<1>4. Place(files, name) \in 1 .. Len(files) + 1
  BY <1>2, PlaceIsFirst
<1>5. CASE Dropped(files, name)
  <2>1. t = files
    BY <1>5 DEF add_debug_to
  <2>2. ~(Len(files) < MAX_FILES_NUMBER)
    BY <1>2, <1>4, <1>5 DEF Dropped
  <2> QED BY <1>1, <1>3, <2>1, <2>2 DEF HoldFor
<1>6. CASE ~Dropped(files, name)
  <2>1. t = InsertAt(files, Place(files, name), name)
    BY <1>6 DEF add_debug_to
  <2>2. Len(files) < MAX_FILES_NUMBER
    BY <1>2, <1>6 DEF Overflows
  <2>3. Sorted(t) /\ Len(t) = Len(files) + 1 /\ Range(t) = Range(files) \cup {name}
    BY <2>1, InsertionSorts DEF HoldFor
  <2> HIDE DEF t
  <2>4. Len(t) <= MAX_FILES_NUMBER
    BY <1>2, <2>2, <2>3
  <2>5. \A x \in Range(t) : <<"d", x>> \in E
    BY <1>1, <2>3 DEF HoldFor
  <2>6. \A x \in Text : <<"d", x>> \in E => x \in Range(t)
    BY <1>1, <2>2, <2>3 DEF HoldFor
  <2> HIDE DEF E
  <2>7. HoldFor(t, modes, on, E)
    BY <1>3, <2>3, <2>4, <2>5, <2>6 DEF HoldFor
  <2> QED BY <2>7 DEF t, E
<1> QED BY <1>5, <1>6

(* Such settings answer as the line asks.                                  *)
LEMMA HeldAnswers ==
    ASSUME NEW files, NEW modes, NEW on, NEW D, HoldFor(files, modes, on, D)
    PROVE  /\ \A name \in Text :
                 /\ is_debugged(files, name) => <<"d", name>> \in D
                 /\ Len(files) < MAX_FILES_NUMBER =>
                      (<<"d", name>> \in D => is_debugged(files, name))
           /\ modes = {m \in ModeNames : <<"s", m>> \in D}
           /\ "state" \in on <=> modes # {}
           /\ \A o \in DOMAIN TraceFlag : TraceFlag[o] \in on <=> <<o, Unset>> \in D
<1>1. \A name \in Text : is_debugged(files, name) <=> name \in Range(files)
  BY SearchFinds DEF HoldFor
<1>2. \A name \in Text :
         /\ is_debugged(files, name) => <<"d", name>> \in D
         /\ Len(files) < MAX_FILES_NUMBER => (<<"d", name>> \in D => is_debugged(files, name))
  BY <1>1 DEF HoldFor
<1> QED BY <1>2 DEF HoldFor

(* The settings are those of what has been read.                           *)
Held(got) == /\ HoldFor(debugged_files, states, trace_flags, got.asked)
             /\ LastHold(gdb_port, irq_port, trace_file, got.last)

(* While the options are read, the settings are those of the part of the   *)
(* line that has been read; the rest is in argv.                           *)
SettingsInv ==
    /\ given \in Seq(Words)
    /\ outcome = "shell" => Held(NothingAsked)
    /\ outcome = "options" =>
          \E i \in 0 .. Len(given) : argv = SubSeq(given, i + 1, Len(given))
    /\ outcome = "options" /\ AsInUsage(given) =>
          \E i \in 0 .. Len(given) : ReadTo(given, argv, i) /\ Held(Reading(given)[i])
    /\ outcome = "runs" /\ AsInUsage(given) => Held(Reading(given)[Len(given)])

(* At the start nothing of the line is read.                               *)
LEMMA StartStep ==
    ASSUME SettingsInv, outcome = "shell", NEW line \in SeqOf(Words, MaxWords), Start(line)
    PROVE  SettingsInv'
<1>1. argv' = line /\ given' = line /\ outcome' = "options" /\ UNCHANGED chosen
  BY DEF Start
<1>2. line \in Seq(Words) /\ 0 \in 0 .. Len(line) /\ line = SubSeq(line, 0 + 1, Len(line))
  BY OptionsAssumption, SubSeqFull DEF SeqOf
<1>3. Held(NothingAsked)'
  BY <1>1 DEF SettingsInv, Held, chosen, traced, ports
<1>4. Reading(line)[0] = NothingAsked
  BY <1>2, ReadingIs
<1>5. ReadTo(line, line, 0)
  BY <1>2, <1>4 DEF ReadTo, NothingAsked
<1>6. \E i \in 0 .. Len(line) : ReadTo(line, line, i) /\ Held(Reading(line)[i])'
  BY <1>2, <1>3, <1>4, <1>5
<1> QED BY <1>1, <1>2, <1>6 DEF SettingsInv, Held

(* What is left after an option is the end of the line.                    *)
LEMMA LeftIsRest ==
    ASSUME NEW line \in Seq(Words), NEW i \in 0 .. Len(line),
           NEW left, left = SubSeq(line, i + 1, Len(line)), left # <<>>,
           ~Incomplete(Head(left), Tail(left))
    PROVE  \E j \in 0 .. Len(line) :
              Left(Head(left), Tail(left)) = SubSeq(line, j + 1, Len(line))
<1> DEFINE w == Head(left)
           rest == Tail(left)
<1>1. i + 1 \in 1 .. Len(line) /\ rest = SubSeq(line, (i + 1) + 1, Len(line))
  <2>1. (i + 1) + 1 = i + 2
    OBVIOUS
  <2> QED BY <2>1, NextWord
<1>2. CASE Takes(w) /\ w.arg = Unset
  <2>1. rest # <<>> /\ i + 1 \in 0 .. Len(line)
    BY <1>1, <1>2 DEF Incomplete
  <2>2. /\ (i + 1) + 1 \in 1 .. Len(line)
        /\ Tail(rest) = SubSeq(line, (i + 1) + 2, Len(line))
    BY <1>1, <2>1, NextWord
  <2>3. i + 2 \in 0 .. Len(line) /\ Tail(rest) = SubSeq(line, (i + 2) + 1, Len(line))
    <3>1. (i + 1) + 1 = i + 2 /\ (i + 1) + 2 = (i + 2) + 1
      BY <1>1
    <3> QED BY <2>2, <3>1
  <2>4. Left(w, rest) = Tail(rest)
    BY <1>2 DEF Left
  <2> QED BY <2>3, <2>4
<1>3. CASE ~(Takes(w) /\ w.arg = Unset)
  <2>1. Left(w, rest) = rest /\ i + 1 \in 0 .. Len(line)
    BY <1>1, <1>3 DEF Left
  <2> QED BY <1>1, <2>1
<1> QED BY <1>2, <1>3

(* One that is taken leaves the settings of one more option.               *)
LEMMA TakenStep ==
    ASSUME SettingsInv, NEW o \in Letters, Option(o),
           outcome' = "options" =>
             \A D : HoldFor(debugged_files, states, trace_flags, D) =>
                    HoldFor(debugged_files', states', trace_flags',
                            D \cup {<<o, optarg(First, Rest)>>}),
           outcome' = "options" =>
             \A L : LastHold(gdb_port, irq_port, trace_file, L) =>
                    LastHold(gdb_port', irq_port', trace_file', Noted(L, o, optarg(First, Rest))),
           outcome' # "shell", outcome' # "runs"
    PROVE  SettingsInv'
<1>1. /\ outcome = "options" /\ argv # <<>> /\ Head(argv).opt = o
      /\ ~Incomplete(Head(argv), Tail(argv))
      /\ argv' = Left(Head(argv), Tail(argv)) /\ given' = given
  BY DEF Option, First, Rest
<1>2. given \in Seq(Words)
  BY DEF SettingsInv
<1>3. \E j \in 0 .. Len(given) : argv' = SubSeq(given, j + 1, Len(given))
  <2>1. PICK i \in 0 .. Len(given) : argv = SubSeq(given, i + 1, Len(given))
    BY <1>1 DEF SettingsInv
  <2> QED BY <1>1, <1>2, <2>1, LeftIsRest
<1>4. ASSUME AsInUsage(given), outcome' = "options"
      PROVE  \E j \in 0 .. Len(given) : ReadTo(given, argv', j) /\ Held(Reading(given)[j])'
  <2>1. PICK i \in 0 .. Len(given) : ReadTo(given, argv, i) /\ Held(Reading(given)[i])
    BY <1>1, <1>4 DEF SettingsInv
  <2>2. PICK j \in 0 .. Len(given) :
          /\ ReadTo(given, Left(Head(argv), Tail(argv)), j)
          /\ Reading(given)[j] =
                Asking(Reading(given)[i], Head(argv).opt, optarg(Head(argv), Tail(argv)))
    BY <1>1, <1>2, <1>4, <2>1, OptionIsRead
  <2>3. /\ Reading(given)[j].asked =
             Reading(given)[i].asked \cup {<<o, optarg(First, Rest)>>}
        /\ Reading(given)[j].last = Noted(Reading(given)[i].last, o, optarg(First, Rest))
    BY <1>1, <2>2 DEF Asking, Noted, First, Rest
  <2>4. HoldFor(debugged_files', states', trace_flags', Reading(given)[j].asked)
    BY <1>4, <2>1, <2>3 DEF Held
  <2>5. LastHold(gdb_port', irq_port', trace_file', Reading(given)[j].last)
    BY <1>4, <2>1, <2>3 DEF Held
  <2>6. Held(Reading(given)[j])'
    BY <1>1, <2>4, <2>5 DEF Held
  <2> QED BY <1>1, <2>2, <2>6
<1> QED BY <1>1, <1>2, <1>3, <1>4 DEF SettingsInv

(* The argument of an option: a text if it takes one, and nothing if not.  *)
LEMMA TakenArgument ==
    ASSUME SettingsInv, NEW o \in Letters, Option(o)
    PROVE  /\ outcome = "options"
           /\ o \in Described => optarg(First, Rest) \in Text
           /\ o \notin Described \cup {"s"} => optarg(First, Rest) = Unset
<1>1. /\ outcome = "options" /\ argv # <<>> /\ Head(argv).opt = o
      /\ ~Incomplete(Head(argv), Tail(argv))
  BY DEF Option, First, Rest
<1>2. given \in Seq(Words)
  BY DEF SettingsInv
<1>3. PICK i \in 0 .. Len(given) : argv = SubSeq(given, i + 1, Len(given))
  BY <1>1 DEF SettingsInv
<1>4. /\ First \in Words
      /\ Takes(First) => optarg(First, Rest) \in Text
      /\ ~Takes(First) => optarg(First, Rest) = Unset
  BY <1>1, <1>2, <1>3, ArgumentIsText DEF First, Rest
<1>5. First.opt = o /\ First.form \in {"long", "short"}
  BY <1>1, <1>4, WordFields, OptionsAssumption DEF First
<1>6. /\ o \in Described => Takes(First)
      /\ o \notin Described \cup {"s"} => ~Takes(First)
  BY <1>5 DEF Described, Takes, LongTakes, ShortTakes
<1> QED BY <1>1, <1>4, <1>6

(* An option of which the last one does not count changes no last one.     *)
LEMMA NotCounted ==
    ASSUME NEW gdb, NEW irq, NEW file, NEW last, LastHold(gdb, irq, file, last),
           NEW o \in Letters \ Single, NEW a
    PROVE  LastHold(gdb, irq, file, Noted(last, o, a))
BY DEF LastHold, Noted, Single

(* An option that sets one of the ports, or the file.                      *)
LEMMA Counted ==
    ASSUME NEW gdb, NEW irq, NEW file, NEW last, LastHold(gdb, irq, file, last),
           NEW a \in Text
    PROVE  /\ LastHold(Port(a), irq, file, Noted(last, "g", a))
           /\ LastHold(gdb, Port(a), file, Noted(last, "i", a))
           /\ LastHold(gdb, irq, a, Noted(last, "t", a))
<1>1. PortFor(a) = Port(a)
  BY OptionsAssumption DEF PortFor
<1> QED BY <1>1 DEF LastHold, Noted, Single

(* Each option does what it asks for.                                      *)
LEMMA TracedStep ==
    ASSUME SettingsInv, Traced
    PROVE  SettingsInv'
<1>1. PICK o \in DOMAIN TraceFlag :
        /\ Option(o)
        /\ trace_flags' = trace_flags \cup {TraceFlag[o]}
        /\ UNCHANGED <<states, debugged_files, ports, trace_file, outcome>>
  BY DEF Traced
<1>2. o \in Letters \ Single /\ o \notin Described \cup {"s"}
  BY DEF TraceFlag, Letters, Single, Described
<1>3. outcome = "options" /\ optarg(First, Rest) = Unset
  BY <1>1, <1>2, TakenArgument
<1>4. \A D : HoldFor(debugged_files, states, trace_flags, D) =>
             HoldFor(debugged_files', states', trace_flags', D \cup {<<o, optarg(First, Rest)>>})
  BY <1>1, <1>3, FlagAsked
<1>5. \A L : LastHold(gdb_port, irq_port, trace_file, L) =>
             LastHold(gdb_port', irq_port', trace_file', Noted(L, o, optarg(First, Rest)))
  BY <1>1, <1>2, <1>3, NotCounted DEF ports
<1> QED BY <1>1, <1>2, <1>3, <1>4, <1>5, TakenStep

LEMMA TracedStateStep ==
    ASSUME SettingsInv, TracedState
    PROVE  SettingsInv'
<1> DEFINE a == optarg(First, Rest)
           mode == arm_get_mode_number(a)
<1>1. /\ Option("s") /\ "s" \in Letters \ Single /\ debugged_files' = debugged_files
      /\ UNCHANGED <<gdb_port, irq_port, trace_file>>
  BY DEF TracedState, Letters, Single, ports
<1>2. CASE a = Unset
  <2>1. outcome' = "undefined"
    BY <1>2 DEF TracedState, Argument
  <2> QED BY <1>1, <2>1, TakenStep
<1>3. CASE a # Unset
  <2>1. outcome' = "options"
    BY <1>1, <1>3, TakenArgument DEF TracedState, Argument
  <2>2. /\ trace_flags' = IF mode = "-1" THEN trace_flags ELSE trace_flags \cup {"state"}
        /\ states' = states \cup ({mode} \ {"-1"})
    BY <1>3 DEF TracedState, TraceState, Argument
  <2> HIDE DEF a
  <2>3. \A D : HoldFor(debugged_files, states, trace_flags, D) =>
               HoldFor(debugged_files', states', trace_flags', D \cup {<<"s", a>>})
    BY <1>1, <2>2, ModeAsked
  <2>4. \A L : LastHold(gdb_port, irq_port, trace_file, L) =>
               LastHold(gdb_port', irq_port', trace_file', Noted(L, "s", a))
    BY <1>1, NotCounted
  <2> QED BY <1>1, <2>1, <2>3, <2>4, TakenStep DEF a
<1> QED BY <1>2, <1>3

LEMMA DebuggedStep ==
    ASSUME SettingsInv, Debugged
    PROVE  SettingsInv'
<1> DEFINE name == optarg(First, Rest)
<1>1. /\ Option("d") /\ "d" \in Letters \ Single /\ "d" \in Described
      /\ trace_flags' = trace_flags /\ states' = states
      /\ UNCHANGED <<gdb_port, irq_port, trace_file>>
  BY DEF Debugged, Letters, Single, Described, traced, ports
<1>2. name \in Text /\ outcome = "options"
  BY <1>1, TakenArgument
<1>3. CASE Overflows(debugged_files, name)
  <2>1. outcome' = "undefined"
    BY <1>3 DEF Debugged, Argument
  <2> QED BY <1>1, <2>1, TakenStep
<1>4. CASE ~Overflows(debugged_files, name)
  <2>1. outcome' = "options" /\ debugged_files' = add_debug_to(debugged_files, name)
    BY <1>2, <1>4 DEF Debugged, Argument
  <2> HIDE DEF name
  <2>2. \A D : HoldFor(debugged_files, states, trace_flags, D) =>
               HoldFor(debugged_files', states', trace_flags', D \cup {<<"d", name>>})
    BY <1>1, <1>2, <1>4, <2>1, FileAsked
  <2>3. \A L : LastHold(gdb_port, irq_port, trace_file, L) =>
               LastHold(gdb_port', irq_port', trace_file', Noted(L, "d", name))
    BY <1>1, NotCounted
  <2> QED BY <1>1, <2>1, <2>2, <2>3, TakenStep DEF name
<1> QED BY <1>3, <1>4

(* The trace file and the two ports.                                       *)
LEMMA LastStep ==
    ASSUME SettingsInv, NEW o \in Single, Option(o),
           outcome' \in {"options", "no file"},
           UNCHANGED <<trace_flags, states, debugged_files>>,
           outcome' = "options" =>
             <<gdb_port, irq_port, trace_file>>' =
                CASE o = "g" -> <<Port(Argument), irq_port, trace_file>>
                  [] o = "i" -> <<gdb_port, Port(Argument), trace_file>>
                  [] o = "t" -> <<gdb_port, irq_port, Argument>>
    PROVE  SettingsInv'
<1> DEFINE a == optarg(First, Rest)
<1>1. o \in Letters /\ o \in {"t", "h", "g", "i"} /\ o \in Described
  BY DEF Letters, Single, Described
<1>2. a \in Text
  BY <1>1, TakenArgument
<1>3. /\ o = "g" /\ outcome' = "options" =>
           gdb_port' = Port(a) /\ irq_port' = irq_port /\ trace_file' = trace_file
      /\ o = "i" /\ outcome' = "options" =>
           gdb_port' = gdb_port /\ irq_port' = Port(a) /\ trace_file' = trace_file
      /\ o = "t" /\ outcome' = "options" =>
           gdb_port' = gdb_port /\ irq_port' = irq_port /\ trace_file' = a
  BY DEF Argument
<1> HIDE DEF a
<1>4. \A D : HoldFor(debugged_files, states, trace_flags, D) =>
             HoldFor(debugged_files', states', trace_flags', D \cup {<<o, a>>})
  BY <1>1, OtherAsked
<1>5. ASSUME outcome' = "options"
      PROVE  \A L : LastHold(gdb_port, irq_port, trace_file, L) =>
                    LastHold(gdb_port', irq_port', trace_file', Noted(L, o, a))
  <2>1. o = "g" \/ o = "i" \/ o = "t"
    BY DEF Single
  <2> QED BY <1>2, <1>3, <1>5, <2>1, Counted
<1> QED BY <1>1, <1>4, <1>5, TakenStep DEF a

LEMMA HelpStep ==
    ASSUME SettingsInv, Help
    PROVE  SettingsInv'
<1>1. Option("h") /\ "h" \in Letters /\ outcome' = "help"
  BY DEF Help, Letters
<1> QED BY <1>1, TakenStep

(* Words that are no options change nothing.                               *)
LEMMA SkipStep ==
    ASSUME SettingsInv, Skip
    PROVE  SettingsInv'
<1>1. /\ outcome = "options" /\ argv # <<>> /\ Head(argv).form = "word" /\ argv' = Tail(argv)
      /\ given' = given /\ UNCHANGED chosen /\ outcome' = outcome
  BY DEF Skip, First, Rest
<1>2. given \in Seq(Words)
  BY DEF SettingsInv
<1>3. \E j \in 0 .. Len(given) : argv' = SubSeq(given, j + 1, Len(given))
  <2>1. PICK i \in 0 .. Len(given) : argv = SubSeq(given, i + 1, Len(given))
    BY <1>1 DEF SettingsInv
  <2>2. i + 1 \in 0 .. Len(given) /\ Tail(argv) = SubSeq(given, (i + 1) + 1, Len(given))
    <3>1. (i + 1) + 1 = i + 2
      BY <2>1
    <3> QED BY <1>1, <1>2, <2>1, <3>1, NextWord
  <2> QED BY <1>1, <2>2
<1>4. ASSUME AsInUsage(given)
      PROVE  \E j \in 0 .. Len(given) : ReadTo(given, argv', j) /\ Held(Reading(given)[j])'
  <2>1. PICK i \in 0 .. Len(given) : ReadTo(given, argv, i) /\ Held(Reading(given)[i])
    BY <1>1, <1>4 DEF SettingsInv
  <2>2. PICK j \in 0 .. Len(given) : /\ ReadTo(given, Tail(argv), j)
                                     /\ Reading(given)[j] = Reading(given)[i]
    BY <1>1, <1>2, <2>1, WordIsRead
  <2>3. Held(Reading(given)[j])'
    BY <1>1, <2>1, <2>2 DEF Held, chosen, traced, ports
  <2> QED BY <1>1, <2>2, <2>3
<1> QED BY <1>1, <1>2, <1>3, <1>4 DEF SettingsInv

(* At the end of the line, all of it has been read.                        *)
LEMMA SimulateStep ==
    ASSUME SettingsInv, Simulate
    PROVE  SettingsInv'
<1>1. /\ outcome = "options" /\ argv = <<>> /\ outcome' = "runs"
      /\ given' = given /\ UNCHANGED chosen
  BY DEF Simulate
<1>2. given \in Seq(Words)
  BY DEF SettingsInv
<1>3. ASSUME AsInUsage(given) PROVE Held(Reading(given)[Len(given)])'
  <2>1. PICK i \in 0 .. Len(given) : ReadTo(given, argv, i) /\ Held(Reading(given)[i])
    BY <1>1, <1>3 DEF SettingsInv
  <2>2. i = Len(given)
    <3>1. CASE i < Len(given)
      <4>1. \A k \in i + 1 .. Len(given) : given[k] \in Words
        BY <1>2
      <4>2. i + 1 \in Int /\ Len(given) \in Int
        BY <1>2
      <4>3. Len(argv) = IF i + 1 <= Len(given) THEN Len(given) - (i + 1) + 1 ELSE 0
        BY <2>1, <4>1, <4>2, SubSeqProperties DEF ReadTo
      <4>4. Len(argv) > 0
        BY <1>2, <3>1, <4>3
      <4> QED BY <1>1, <4>4
    <3> QED BY <1>2, <3>1
  <2> QED BY <1>1, <2>1, <2>2 DEF Held, chosen, traced, ports
<1> QED BY <1>1, <1>2, <1>3 DEF SettingsInv

(* Every step keeps the settings those of the part read.                   *)
LEMMA SettingsStep ==
    ASSUME SettingsInv, [OptionsNext]_settings
    PROVE  SettingsInv'
<1>1. CASE outcome = "shell" /\ \E line \in SeqOf(Words, MaxWords) : Start(line)
  BY <1>1, StartStep
<1>2. CASE Traced
  BY <1>2, TracedStep
<1>3. CASE TracedState
  BY <1>3, TracedStateStep
<1>4. CASE Debugged
  BY <1>4, DebuggedStep
<1>5. CASE TraceFile
  <2>1. Option("t") /\ outcome = "options"
    BY <1>5 DEF TraceFile, Option
  <2> QED BY <1>5, <2>1, LastStep DEF TraceFile, Single, traced, ports
<1>6. CASE GdbPort
  <2>1. Option("g") /\ outcome = "options"
    BY <1>6 DEF GdbPort, Option
  <2> QED BY <1>6, <2>1, LastStep DEF GdbPort, Single, traced
<1>7. CASE IrqPort
  <2>1. Option("i") /\ outcome = "options"
    BY <1>7 DEF IrqPort, Option
  <2> QED BY <1>7, <2>1, LastStep DEF IrqPort, Single, traced
<1>8. CASE Help
  BY <1>8, HelpStep
<1>9. CASE Usage
  BY <1>9 DEF Usage, SettingsInv
<1>10. CASE Skip
  BY <1>10, SkipStep
<1>11. CASE Simulate
  BY <1>11, SimulateStep
<1>12. CASE UNCHANGED settings
  BY <1>12 DEF settings, chosen, traced, ports, SettingsInv, Held
<1> QED BY <1>1, <1>2, <1>3, <1>4, <1>5, <1>6, <1>7, <1>8, <1>9, <1>10, <1>11, <1>12 DEF OptionsNext

(* The simulator runs with what its line asks for by the usage text, for   *)
(* any words, any line without --trace-state bare and any size of the      *)
(* table: which files the search finds in the table that the insertions    *)
(* made, the modes whose registers are printed, the four trace flags, both *)
(* ports and the trace file (src/arm_simulator.c lines 153-200,            *)
(* src/debug.c lines 32-65).                                               *)
THEOREM SettingsAreAsked == OptionsSpec => []SettingsMatchLine
<1>1. ASSUME OptionsInit PROVE SettingsInv
  <2>1. given \in Seq(Words) /\ outcome = "shell"
    BY <1>1 DEF OptionsInit
  <2>2. Held(NothingAsked)
    <3>1. NothingAsked.asked = {}
      BY DEF NothingAsked
    <3> QED BY <1>1, <3>1, NothingHeld DEF OptionsInit, Held
  <2> QED BY <2>1, <2>2 DEF SettingsInv
<1>2. SettingsInv => SettingsMatchLine
  <2> SUFFICES ASSUME SettingsInv, outcome = "runs", AsInUsage(given) PROVE SettingsMatchLine
    BY DEF SettingsMatchLine
  <2>1. /\ HoldFor(debugged_files, states, trace_flags, Asked(given))
        /\ LastHold(gdb_port, irq_port, trace_file, Reading(given)[Len(given)].last)
    BY DEF SettingsInv, Held, Asked
  <2>2. /\ gdb_port = PortAsked("g", given) /\ irq_port = PortAsked("i", given)
        /\ trace_file = LastAsked("t", given)
    BY <2>1 DEF LastHold, PortFor, PortAsked, LastAsked
  <2> QED BY <2>1, <2>2, HeldAnswers DEF SettingsMatchLine
<1> QED BY <1>1, <1>2, SettingsStep, PTL DEF OptionsSpec
=============================================================================
