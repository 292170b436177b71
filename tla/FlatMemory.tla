----------------------------- MODULE FlatMemory -----------------------------
(***************************************************************************)
(* What a memory promises, for accesses of one, two and four bytes alike:  *)
(* n consecutive addresses hold the n digits of a number in base ByteMod,  *)
(* the most significant first or last.  An access that does not lie inside *)
(* as a whole is refused as a whole.                                       *)
(***************************************************************************)
EXTENDS Integers

CONSTANTS ByteMod, Size,
          Addresses          \* the addresses callers pass

VARIABLES bytes,       \* the digit at each address
          value,       \* the number last read
          refused      \* was the last access refused?

vars == <<bytes, value, refused>>

Address == 0 .. (Size - 1)
Width   == {1, 2, 4}

Weight == [i \in 0 .. 4 |-> CASE i = 0 -> 1
                              [] i = 1 -> ByteMod
                              [] i = 2 -> ByteMod * ByteMod
                              [] i = 3 -> ByteMod * ByteMod * ByteMod
                              [] i = 4 -> ByteMod * ByteMod * ByteMod * ByteMod]

Numbers(n)  == 0 .. (Weight[n] - 1)
Digit(v, i) == (v \div Weight[i]) % ByteMod

Inside(a, n) == a + n <= Size

(* Where digit i of a number of n digits at a lies.                        *)
Cell(a, n, be, i) == IF be THEN a + (n - 1 - i) ELSE a + i

Init == bytes \in [Address -> 0 .. (ByteMod - 1)] /\ value = 0 /\ refused = FALSE

Refuse(a, n) == ~Inside(a, n) /\ refused' = TRUE /\ UNCHANGED <<bytes, value>>

Read(a, n, be) == /\ Inside(a, n) /\ refused' = FALSE
                  /\ value' \in Numbers(n)
                  /\ \A i \in 0 .. (n - 1) : Digit(value', i) = bytes[Cell(a, n, be, i)]
                  /\ UNCHANGED bytes

Write(a, n, be, v) ==
    /\ Inside(a, n) /\ refused' = FALSE
    /\ bytes' \in [Address -> 0 .. (ByteMod - 1)]
    /\ \A i \in 0 .. (n - 1) : bytes'[Cell(a, n, be, i)] = Digit(v, i)
    /\ \A c \in Address \ (a .. (a + n - 1)) : bytes'[c] = bytes[c]
    /\ UNCHANGED value

ReadCall(a, n, be)     == Refuse(a, n) \/ Read(a, n, be)
WriteCall(a, n, be, v) == Refuse(a, n) \/ Write(a, n, be, v)

Next == \E a \in Addresses, n \in Width, be \in BOOLEAN :
           \/ ReadCall(a, n, be)
           \/ \E v \in Numbers(n) : WriteCall(a, n, be, v)

Spec == Init /\ [][Next]_vars
=============================================================================
