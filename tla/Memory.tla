------------------------------- MODULE Memory -------------------------------
(***************************************************************************)
(* The memory of src/memory.c: an array of bytes read and written by byte, *)
(* half word (two bytes) and word (four), in either byte order.            *)
(*                                                                         *)
(* The operators are pure: m is the array, an access is only defined where *)
(* its test lets it through.  Bytes are numbers modulo ByteMod, 256 in the *)
(* program, so that shifting by 8 * i bits is multiplying or dividing by   *)
(* ByteMod i times.  The sizes are unsigned: Size - 3 does not wrap because*)
(* the memory of src/arm_simulator.c line 202 is larger than a word.       *)
(***************************************************************************)
EXTENDS Integers

CONSTANTS ByteMod, Size

ASSUME MemoryAssumption == /\ ByteMod \in Nat /\ ByteMod > 1
                           /\ Size \in Nat /\ Size >= 4

Address  == 0 .. (Size - 1)
Byte     == 0 .. (ByteMod - 1)
HalfWord == 0 .. (ByteMod * ByteMod - 1)
FullWord == 0 .. (ByteMod * ByteMod * ByteMod * ByteMod - 1)
Contents == [Address -> Byte]

(* What an access returns (src/werror.h).                                  *)
SUCCESS            == 0
INDEX_OUT_OF_RANGE == 8

(* The tests that refuse an address.                                       *)
byte_refused(address) == address >= Size
half_refused(address) == address >= Size - 1
MutantWordRefused(address) == address >= Size - 4    \* mutant: one address too many
word_refused(address) == address >= Size - 3

\* mutant: the most significant byte is not cut to eight bits
MutantByteOf(v, i) == CASE i = 0 -> v % ByteMod
                        [] i = 1 -> v \div ByteMod
                        [] i = 2 -> (v \div (ByteMod * ByteMod)) % ByteMod
                        [] i = 3 -> v \div (ByteMod * ByteMod * ByteMod)

(* (uint8_t)(v >> i * 8)                                                   *)
ByteOf(v, i) == CASE i = 0 -> v % ByteMod
                  [] i = 1 -> (v \div ByteMod) % ByteMod
                  [] i = 2 -> (v \div (ByteMod * ByteMod)) % ByteMod
                  [] i = 3 -> (v \div (ByteMod * ByteMod * ByteMod)) % ByteMod

TwoBytes(high, low) == high * ByteMod + low

memory_read_byte(m, address) == m[address]

memory_read_half(m, address, be) ==
    IF be THEN TwoBytes(m[address], m[address + 1])
          ELSE TwoBytes(m[address + 1], m[address])

memory_read_word(m, address, be) ==
    LET high == IF be THEN TwoBytes(m[address], m[address + 1])
                      ELSE TwoBytes(m[address + 3], m[address + 2])
        low  == IF be THEN TwoBytes(m[address + 2], m[address + 3])
                      ELSE TwoBytes(m[address + 1], m[address])
    IN  high * (ByteMod * ByteMod) + low

memory_write_byte(m, address, v) == [m EXCEPT ![address] = v]

memory_write_half(m, address, v, be) ==
    [a \in Address |->
        CASE a = address     -> ByteOf(v, IF be THEN 1 ELSE 0)
          [] a = address + 1 -> ByteOf(v, IF be THEN 0 ELSE 1)
          [] OTHER           -> m[a]]

memory_write_word(m, address, v, be) ==
    [a \in Address |->
        IF a \in address .. (address + 3)
        THEN ByteOf(v, IF be THEN 3 - (a - address) ELSE a - address)
        ELSE m[a]]
=============================================================================
