---------------------------- MODULE GdbProtocol ----------------------------
(***************************************************************************)
(* The requests of the debugger that look at and change the target         *)
(* (src/gdb_protocol.c): general registers (g, G), one register (p, P),    *)
(* memory (m, X), the stop reason (?), threads (H), queries (q) and a      *)
(* single step (s, S).  A handler runs under the simulator's lock, so an   *)
(* interrupt comes between two requests and never inside one.              *)
(*                                                                         *)
(* What the debugger writes in a packet is modelled by the value it means, *)
(* save where the handler reads the same text in another way: the numbers  *)
(* of p and P, and the escapes of X.                                       *)
(***************************************************************************)
EXTENDS ArmMachine, Sequences

CONSTANTS Escape,            \* 0x7d, which announces an escaped byte
          Flip,              \* 0x20, the bit an escape flips
          Special,           \* the bytes the debugger escapes: # $ }
          Numbers,           \* register numbers the debugger names
          Values,            \* register values the debugger writes
          Files,             \* what it writes with G: regs and cpsr
          Places,            \* addresses of m and X
          BlocksSent,        \* contents of X
          Lengths,           \* sizes of m
          BytesStored,       \* bytes the program stores
          Found,             \* the register file the debugger finds
          MaxRequests        \* bound on the requests of the debugger

ASSUME GdbAssumption ==
    /\ MachineAssumption
    /\ Special \subseteq Byte /\ Escape \in Special
    /\ Flip \in Byte /\ Flip > 0
    /\ Numbers \subseteq 0 .. 25       \* r0-r15, f0-f7, fps, cpsr
    /\ Values \subseteq Word
    /\ Files \subseteq [regs : [0 .. 15 -> Word], cpsr : Psr]
    /\ Places \subseteq Nat
    /\ BlocksSent \subseteq Seq(Byte)
    /\ Lengths \subseteq Nat
    /\ BytesStored \subseteq Byte
    /\ Found \in RegisterFileType
    /\ MaxRequests \in Nat

VARIABLES request,            \* the last request
          requests,           \* how many there were
          reply,              \* the answer it got
          aborted             \* an assertion ended the program

session == <<machine, request, requests, reply, aborted>>

OK    == [kind |-> "OK"]
Empty == [kind |-> "empty"]
Text(text)   == [kind |-> "text", text |-> text]
Error(code)  == [kind |-> "error", code |-> code]
Bytes(data)  == [kind |-> "bytes", data |-> data]
Nothing      == [kind |-> "none"]

Ask(r)    == /\ ~aborted
             /\ requests < MaxRequests /\ requests' = requests + 1
             /\ request' = r
Answer(a) == reply' = a /\ UNCHANGED aborted
Abort     == aborted' = TRUE /\ UNCHANGED <<machine, reply>>

-----------------------------------------------------------------------------
(* Registers.                                                              *)
read_register(q, reg) == registers_read(q, reg, registers_get_mode(q))

write_register(q, reg, value) == registers_write(q, reg, registers_get_mode(q), value)

GeneralRegisters(q) == [kind |-> "registers",
                        regs |-> [i \in 0 .. 15 |-> read_register(q, i)],
                        cpsr |-> registers_read_cpsr(q)]

read_general_registers == /\ Ask([kind |-> "g"])
                          /\ Answer(GeneralRegisters(p))
                          /\ UNCHANGED machine

(* Sixteen writes of one register each, then the CPSR.                     *)
WriteAll(q, regs) ==
    LET after[n \in 0 .. 16] == IF n = 0 THEN q ELSE write_register(after[n - 1], n - 1, regs[n - 1])
    IN  after[16]

Written(q, file) == registers_write_cpsr(WriteAll(q, file.regs), file.cpsr)

write_general_registers(file) ==
    /\ Ask([kind |-> "G", file |-> file])
    /\ p' = Written(p, file)
    /\ Answer(OK)
    /\ UNCHANGED <<cycle_count, result, m>>

(* The debugger writes a register number in hexadecimal.  p reads it with  *)
(* atoi, which stops at the first letter; P reads it with %x.              *)
Atoi(number) ==
    LET high == number \div 16
        low  == number % 16
    IN  CASE high = 0 -> IF low < 10 THEN low ELSE 0
          [] high > 0 -> IF low < 10 THEN 10 * high + low ELSE high

read_single_register(number) ==
    /\ Ask([kind |-> "p", number |-> number])
    /\ IF Atoi(number) < 16
       THEN /\ Answer([kind |-> "register", value |-> read_register(p, Atoi(number))])
            /\ UNCHANGED machine
       ELSE Abort

\* mutant: the value goes to the bank of the user mode
MutantWritesTo(q, number, value) == registers_write(q, number, USR, value)

WritesTo(q, number, value) == write_register(q, number, value)

write_single_register(number, value) ==
    /\ Ask([kind |-> "P", number |-> number, value |-> value])
    /\ IF number < 16
       THEN /\ p' = WritesTo(p, number, value)
            /\ Answer(OK)
            /\ UNCHANGED <<cycle_count, result, m>>
       ELSE Abort

-----------------------------------------------------------------------------
(* Memory.  The local a byte is read into keeps its last value when the    *)
(* read is refused, and the loop takes only -1 for a refusal.              *)
MemoryBytes(address, size) ==
    [i \in 1 .. size |-> memory_read_byte(m, IF byte_refused(address + i - 1) THEN Size - 1
                                             ELSE address + i - 1)]

EFAULT == 14

read_memory(address, size) ==
    /\ Ask([kind |-> "m", address |-> address, size |-> size])
    /\ Answer(IF address < Size THEN Bytes(MemoryBytes(address, size)) ELSE Error(EFAULT))
    /\ UNCHANGED machine

Flipped(v) == IF (v \div Flip) % 2 = 1 THEN v - Flip ELSE v + Flip

(* What the debugger puts in the packet for a block, and what the handler  *)
(* makes of it: the value of byte i starts where those before it end.      *)
Encoded(block) ==
    LET code(v) == IF v \in Special THEN <<Escape, Flipped(v)>> ELSE <<v>>
        upto[n \in 0 .. Len(block)] == IF n = 0 THEN << >> ELSE upto[n - 1] \o code(block[n])
    IN  upto[Len(block)]

\* mutant: the byte after an escape is taken as it is
MutantContentByte(content, at) == content[IF content[at] = Escape THEN at + 1 ELSE at]

ContentByte(content, at) ==
    IF content[at] = Escape THEN Flipped(content[at + 1]) ELSE content[at]

Decoded(content, size) ==
    LET at[n \in 1 .. size] == IF n = 1 THEN 1
                               ELSE at[n - 1] + (IF content[at[n - 1]] = Escape THEN 2 ELSE 1)
    IN  [n \in 1 .. size |-> ContentByte(content, at[n])]

\* mutant: the address is looked at once, before the first byte
MutantWriteOk(address, size) == address < Size

(* The bytes are written up to the first the memory refuses.               *)
WriteOk(address, size) == address < Size /\ address + size <= Size

Overwritten(address, values) ==
    [a \in Address |-> IF a - address + 1 \in 1 .. Len(values) THEN values[a - address + 1] ELSE m[a]]

write_memory_binary(address, block) ==
    LET size   == Len(block)
        values == Decoded(Encoded(block), size)
    IN  /\ Ask([kind |-> "X", address |-> address, block |-> block])
        /\ m' = Overwritten(address, values)
        /\ Answer(IF WriteOk(address, size) THEN OK ELSE Error(2))
        /\ UNCHANGED <<p, cycle_count, result>>

-----------------------------------------------------------------------------
(* Threads, queries and the stop reason; target_exception is what arm_step *)
(* last returned.                                                          *)
set_thread(type, value) ==
    /\ Ask([kind |-> "H", type |-> type, value |-> value])
    /\ Answer(IF type \in {"c", "g"} /\ value < 1 /\ value > -2 THEN OK ELSE Error(1))
    /\ UNCHANGED machine

query(name) ==
    /\ Ask([kind |-> "q", name |-> name])
    /\ Answer(CASE name = "Offsets"   -> Text("Text=0;Data=0;Bss=0")
                [] name = "Supported" -> Text("PacketSize=400")
                [] name = "TStatus"   -> Text("T0;tnotrun:0")
                [] OTHER              -> Empty)
    /\ UNCHANGED machine

gdb_send_stop_reason(exception) ==
    Text(CASE exception = UNDEFINED_INSTRUCTION -> "S04"
           [] exception = PREFETCH_ABORT        -> "S0A"
           [] exception = DATA_ABORT            -> "S0B"
           [] exception = END_SIMULATION        -> "X05"
           [] OTHER                             -> "S05")

reason == /\ Ask([kind |-> "?"])
          /\ Answer(gdb_send_stop_reason(result))
          /\ UNCHANGED machine

(* s and S: an instruction is executed; these stand for all of them, the   *)
(* stores by those of one byte.                                            *)
step == /\ Ask([kind |-> "s"])
        /\ \/ UNCHANGED m /\ (\/ ConditionFails
                              \/ Unimplemented
                              \/ \E number \in SwiNumber : SoftwareInterrupt(number))
           \/ /\ LoadStore(FALSE, 0, 0, FALSE, 0, 0, TRUE)
              /\ \E a \in Address, v \in BytesStored : m' = memory_write_byte(m, a, v)
        /\ Answer(gdb_send_stop_reason(result'))

Interrupted(exception) ==
    /\ ~aborted
    /\ Interrupt(exception)
    /\ request' = Nothing /\ reply' = Nothing
    /\ UNCHANGED <<m, requests, aborted>>

SessionInit == /\ p = Found
               /\ cycle_count = 0
               /\ result = SUCCESSFULLY_DECODED
               /\ m = [a \in Address |-> 0]
               /\ request = Nothing /\ requests = 0 /\ reply = Nothing
               /\ aborted = FALSE

SessionNext ==
    \/ read_general_registers
    \/ \E file \in Files : write_general_registers(file)
    \/ \E number \in Numbers : read_single_register(number)
    \/ \E number \in Numbers, value \in Values : write_single_register(number, value)
    \/ \E address \in Places, size \in Lengths : read_memory(address, size)
    \/ \E address \in Places, block \in BlocksSent : write_memory_binary(address, block)
    \/ \E type \in {"c", "g", "other"}, value \in -2 .. 1 : set_thread(type, value)
    \/ \E name \in {"Offsets", "Supported", "TStatus", "other"} : query(name)
    \/ reason
    \/ step
    \/ \E exception \in Sent : Interrupted(exception)

SessionSpec == SessionInit /\ [][SessionNext]_session

-----------------------------------------------------------------------------
Request ==
    [kind : {"none", "g", "?", "s"}] \cup [kind : {"G"}, file : Files]
      \cup [kind : {"p"}, number : Numbers]
      \cup [kind : {"P"}, number : Numbers, value : Values]
      \cup [kind : {"m"}, address : Places, size : Lengths]
      \cup [kind : {"X"}, address : Places, block : BlocksSent]
      \cup [kind : {"H"}, type : {"c", "g", "other"}, value : -2 .. 1]
      \cup [kind : {"q"}, name : {"Offsets", "Supported", "TStatus", "other"}]

Registered(a) == a.kind = "registers" => /\ a.regs \in [0 .. 15 -> Word]
                                         /\ a.cpsr \in Psr

SessionTypeOK == /\ MachineTypeOK
                 /\ request \in Request
                 /\ requests \in 0 .. MaxRequests
                 /\ Registered(reply)
                 /\ reply.kind = "bytes" => reply.data \in [1 .. Len(reply.data) -> Byte]
                 /\ aborted \in BOOLEAN

Seen(q) == GeneralRegisters(q).regs

(* The registers the debugger reads are those it wrote: after a P the next *)
(* g shows the new value in that register and the old ones elsewhere, and  *)
(* after a G that keeps the mode it shows the file that was sent; p shows  *)
(* the register it names, below 10.  The banks are the mode's in both      *)
(* directions.  After a G that changes the mode r8..r14 are in the old     *)
(* bank, and p reads as decimal the number P takes as hexadecimal, so that *)
(* the promise ends there (src/gdb_protocol.c lines 227-256, 277-282 and   *)
(* 309-359).                                                               *)
RegistersReadBack ==
    [][registers_get_mode(p) \in Modes =>
          /\ (request'.kind = "P" /\ ~aborted') =>
                /\ Seen(p') = [Seen(p) EXCEPT ![request'.number] = request'.value]
                /\ p'.CPSR = p.CPSR
          /\ (request'.kind = "G" /\ registers_get_mode(p') = registers_get_mode(p)) =>
                /\ Seen(p') = request'.file.regs
                /\ p'.CPSR = request'.file.cpsr
          /\ (request'.kind = "p" /\ request'.number < 10) =>
                reply' = [kind |-> "register", value |-> Seen(p)[request'.number]]]_session

(* A block written by X and acknowledged is what m answers next, escaped   *)
(* bytes included (src/gdb_protocol.c lines 258-275 and 361-387).          *)
BlocksReadBack ==
    [][\A x \in {request}, r \in {request'} :
          (/\ x.kind = "X" /\ reply.kind = "OK"
           /\ r.kind = "m" /\ r.address = x.address /\ r.size = Len(x.block)) =>
             reply' = Bytes(x.block)]_session

(* X is acknowledged only when the whole block is in memory, and changes   *)
(* no byte outside the block: what it wrote before the memory refused an   *)
(* address is reported as an error (src/gdb_protocol.c lines 369-386).     *)
AcknowledgedWhole ==
    [][\A x \in {request'} : x.kind = "X" =>
          LET last == x.address + Len(x.block) - 1
          IN  /\ \A a \in Address : m'[a] # m[a] => a \in x.address .. last
              /\ reply'.kind = "OK" =>
                    \A i \in 1 .. Len(x.block) :
                       x.address + i <= Size /\ m'[x.address + i - 1] = x.block[i]]_session
=============================================================================
