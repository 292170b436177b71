----------------------------- MODULE MemoryCalls -----------------------------
(***************************************************************************)
(* The memory as its callers drive it: any sequence of the six accesses of *)
(* src/memory.h, in both byte orders, at addresses inside and outside.     *)
(* malloc leaves any bytes in it.                                          *)
(***************************************************************************)
EXTENDS Memory

CONSTANT Addresses           \* the addresses callers pass

ASSUME AddressesAssumption == Addresses \subseteq Nat

VARIABLES data,              \* the bytes
          value,             \* the variable the caller reads into
          result             \* what the last access returned

calls == <<data, value, result>>

CallsTypeOK == /\ data \in Contents
               /\ value \in FullWord
               /\ result \in {SUCCESS, INDEX_OUT_OF_RANGE}

CallsInit == data \in Contents /\ value = 0 /\ result = SUCCESS

Refuse == result' = INDEX_OUT_OF_RANGE /\ UNCHANGED <<data, value>>

Load(v)  == result' = SUCCESS /\ value' = v /\ UNCHANGED data
Store(m) == result' = SUCCESS /\ data' = m /\ UNCHANGED value

ReadByte(a) == \/ byte_refused(a) /\ Refuse
               \/ ~byte_refused(a) /\ Load(memory_read_byte(data, a))

ReadHalf(a, be) == \/ half_refused(a) /\ Refuse
                   \/ ~half_refused(a) /\ Load(memory_read_half(data, a, be))

ReadWord(a, be) == \/ word_refused(a) /\ Refuse
                   \/ ~word_refused(a) /\ Load(memory_read_word(data, a, be))

WriteByte(a, v) == \/ byte_refused(a) /\ Refuse
                   \/ ~byte_refused(a) /\ Store(memory_write_byte(data, a, v))

WriteHalf(a, v, be) == \/ half_refused(a) /\ Refuse
                       \/ ~half_refused(a) /\ Store(memory_write_half(data, a, v, be))

WriteWord(a, v, be) == \/ word_refused(a) /\ Refuse
                       \/ ~word_refused(a) /\ Store(memory_write_word(data, a, v, be))

CallsNext ==
    \E a \in Addresses :
       \/ ReadByte(a)
       \/ \E be \in BOOLEAN : ReadHalf(a, be)
       \/ \E be \in BOOLEAN : ReadWord(a, be)
       \/ \E v \in Byte : WriteByte(a, v)
       \/ \E be \in BOOLEAN, v \in HalfWord : WriteHalf(a, v, be)
       \/ \E be \in BOOLEAN, v \in FullWord : WriteWord(a, v, be)

CallsSpec == CallsInit /\ [][CallsNext]_calls

-----------------------------------------------------------------------------
Flat == INSTANCE FlatMemory WITH bytes   <- data,
                                 refused <- result = INDEX_OUT_OF_RANGE

(* Three bound tests and ten shift loops (src/memory.c lines 92-197) are   *)
(* one flat memory: bytes, half words and words see the same digits in     *)
(* both orders, an access is refused exactly when one of its bytes lies    *)
(* outside, and a refused access leaves the memory and the caller's        *)
(* variable as they were.  Each call is the flat memory's call at the same *)
(* address, not merely some call of it.                                    *)
ImplementsFlatMemory ==
    /\ Flat!Init
    /\ [][\A a \in Addresses, be \in BOOLEAN :
             /\ ReadByte(a)     => Flat!ReadCall(a, 1, be)
             /\ ReadHalf(a, be) => Flat!ReadCall(a, 2, be)
             /\ ReadWord(a, be) => Flat!ReadCall(a, 4, be)
             /\ \A v \in Byte     : WriteByte(a, v) => Flat!WriteCall(a, 1, be, v)
             /\ \A v \in HalfWord : WriteHalf(a, v, be) => Flat!WriteCall(a, 2, be, v)
             /\ \A v \in FullWord : WriteWord(a, v, be) => Flat!WriteCall(a, 4, be, v)]_calls
=============================================================================
