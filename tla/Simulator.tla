------------------------------ MODULE Simulator ------------------------------
(***************************************************************************)
(* The running simulator (src/arm_simulator.c, src/gdb_protocol.c): main   *)
(* creates the processor and starts two threads that share it under one    *)
(* lock.  The gdb thread serves the packets of a debugger, one at a time;  *)
(* the irq thread raises an exception for every byte it is sent; main      *)
(* waits for the gdb thread alone, then destroys everything and exits.     *)
(*                                                                         *)
(* The processor is reduced to what the threads see of it: its PC, where   *)
(* an instruction may lead and what arm_step returns for it (Program), and *)
(* the handler an exception leads to.  ArmCpu models its inside,           *)
(* Breakpoints the table of breakpoints.  Packets arrive whole and with a  *)
(* good checksum.  "P" stands for every command that may set the PC, "?"   *)
(* for every one that only answers, "unknown" for one with no handler.     *)
(***************************************************************************)
EXTENDS Integers, FiniteSets

CONSTANTS Pc,              \* the addresses a program can reach
          Entry,           \* the PC after arm_create
          Program,         \* Program[a]: the <<next PC, result>> of the instruction at a
          Handler,         \* where an exception leads
          Capacity,        \* the size of the breakpoint table
          MaxCommands,     \* bound on the packets the debugger sends
          MaxInterrupts    \* bound on the bytes sent to the irq thread

Result == 0 .. 9           \* the exceptions of src/arm_constants.h, 0 for none

ASSUME PcAssumption == Entry \in Pc /\ Handler \in Pc
ASSUME ProgramAssumption == Program \in [Pc -> (SUBSET (Pc \X Result)) \ {{}}]
ASSUME BoundsAssumption == /\ Capacity \in Nat
                           /\ MaxCommands \in Nat /\ MaxInterrupts \in Nat

Commands == [op : {"c", "s", "?", "k", "unknown"}, at : {Entry}]
              \cup [op : {"Z", "z", "P"}, at : Pc]

VARIABLES lock,               \* "free", or the thread that holds it
          PC,                 \* the processor's PC
          target_exception,   \* what the debugger's last step returned
          breakpoints,        \* the addresses of the breakpoint table
          gdb,                \* where the gdb thread is
          command,            \* the packet it is serving
          irq,                \* where the irq thread is
          inbox,              \* the packet on its way to the gdb thread, or none
          sent,               \* packets the debugger has sent
          replies,            \* replies it has received
          eof,                \* the debugger has closed its connection
          bytes,              \* interrupt bytes waiting to be read
          raised,             \* interrupt bytes sent
          main,               \* where the main thread is
          freed               \* what free has been called on, and how often

cpu    == <<PC, target_exception>>
client == <<inbox, sent, eof>>
source == <<bytes, raised>>
ending == <<main, freed>>
vars == <<lock, PC, target_exception, breakpoints, gdb, command, irq, inbox, sent, replies,
          eof, bytes, raised, main, freed>>

NoPacket == [op |-> "none", at |-> Entry]

Objects == {"mem", "reg", "arm"}

TypeOK == /\ lock \in {"free", "gdb", "irq"}
          /\ PC \in Pc
          /\ target_exception \in Result
          /\ breakpoints \in SUBSET Pc
          /\ gdb \in {"scan", "lock", "handle", "do", "while", "unlock", "exited"}
          /\ command \in Commands \cup {NoPacket}
          /\ irq \in {"read", "lock", "handle", "unlock"}
          /\ inbox \in Commands \cup {NoPacket}
          /\ sent \in 0 .. MaxCommands
          /\ replies \in 0 .. MaxCommands
          /\ eof \in BOOLEAN
          /\ bytes \in 0 .. MaxInterrupts
          /\ raised \in 0 .. MaxInterrupts
          /\ main \in {"join", "destroy_arm", "destroy_registers", "destroy_memory", "exited"}
          /\ freed \in [Objects -> 0 .. 2]

Init == /\ lock = "free"
        /\ PC = Entry /\ target_exception = 0
        /\ breakpoints = {}
        /\ gdb = "scan" /\ command = NoPacket
        /\ irq = "read"
        /\ inbox = NoPacket /\ sent = 0 /\ replies = 0 /\ eof = FALSE
        /\ bytes = 0 /\ raised = 0
        /\ main = "join" /\ freed = [o \in Objects |-> 0]

Alive == main # "exited"          \* exit ends every thread

-----------------------------------------------------------------------------
(* The debugger (outside the program): it sends a packet when those before *)
(* have been answered, and closes then or after a kill, which has no       *)
(* answer.                                                                 *)
Killed == "k" \in {inbox.op, command.op}

DebuggerSends(c) ==
    /\ Alive /\ ~eof /\ ~Killed
    /\ replies = sent /\ sent < MaxCommands
    /\ inbox' = c /\ sent' = sent + 1
    /\ UNCHANGED <<lock, cpu, breakpoints, gdb, command, irq, replies, eof, source, ending>>

DebuggerCloses ==
    /\ Alive /\ ~eof /\ (replies = sent \/ Killed)
    /\ eof' = TRUE
    /\ UNCHANGED <<lock, cpu, breakpoints, gdb, command, irq, inbox, sent, replies, source, ending>>

(* send_irq (another program): one byte.                                   *)
IrqSent ==
    /\ Alive /\ raised < MaxInterrupts
    /\ bytes' = bytes + 1 /\ raised' = raised + 1
    /\ UNCHANGED <<lock, cpu, breakpoints, gdb, command, irq, client, replies, ending>>

-----------------------------------------------------------------------------
(* The gdb thread.  A packet with a handler waits for the lock; any other  *)
(* gets an empty reply at once.                                            *)
\* mutant: the empty answer is sent, and the packet still handled
MutantPacketAnalysis ==
    /\ Alive /\ gdb = "scan" /\ inbox # NoPacket
    /\ inbox' = NoPacket /\ command' = inbox
    /\ replies' = replies + 1 /\ gdb' = "lock"
    /\ UNCHANGED <<lock, cpu, breakpoints, irq, sent, eof, source, ending>>

gdb_packet_analysis ==
    /\ Alive /\ gdb = "scan" /\ inbox # NoPacket
    /\ inbox' = NoPacket /\ command' = inbox
    /\ IF inbox.op = "unknown"
       THEN replies' = replies + 1 /\ UNCHANGED gdb
       ELSE gdb' = "lock" /\ UNCHANGED replies
    /\ UNCHANGED <<lock, cpu, breakpoints, irq, sent, eof, source, ending>>

GdbLocks ==
    /\ Alive /\ gdb = "lock" /\ lock = "free"
    /\ lock' = "gdb" /\ gdb' = "handle"
    /\ UNCHANGED <<cpu, breakpoints, command, irq, client, replies, source, ending>>

(* A handler other than cont: its effect and its reply.                    *)
Reply == replies' = replies + 1

arm_step(next, outcome) ==
    /\ <<next, outcome>> \in Program[PC]
    /\ PC' = next /\ target_exception' = outcome

step == /\ command.op = "s"
        /\ \E next \in Pc, outcome \in Result : arm_step(next, outcome)
        /\ Reply /\ UNCHANGED breakpoints

reason == command.op = "?" /\ Reply /\ UNCHANGED <<cpu, breakpoints>>

kill_request == command.op = "k" /\ UNCHANGED <<replies, cpu, breakpoints>>

set_breakpoint == /\ command.op = "Z"
                  /\ breakpoints' = IF Cardinality(breakpoints) < Capacity
                                    THEN breakpoints \cup {command.at} ELSE breakpoints
                  /\ Reply /\ UNCHANGED cpu

remove_breakpoint == /\ command.op = "z"
                     /\ breakpoints' = breakpoints \ {command.at}
                     /\ Reply /\ UNCHANGED cpu

write_single_register == /\ command.op = "P"
                         /\ PC' = command.at
                         /\ Reply /\ UNCHANGED <<target_exception, breakpoints>>

Handle ==
    /\ Alive /\ gdb = "handle"
    /\ \/ step \/ reason \/ kill_request
       \/ set_breakpoint \/ remove_breakpoint \/ write_single_register
    /\ gdb' = "unlock"
    /\ UNCHANGED <<lock, command, irq, client, source, ending>>

(* cont keeps the lock over the whole run.  The body of its loop is at     *)
(* "do" the first time and at "while" after a condition that held.         *)
EnterCont ==
    /\ Alive /\ gdb = "handle" /\ command.op = "c"
    /\ gdb' = "do"
    /\ UNCHANGED <<lock, cpu, breakpoints, command, irq, client, replies, source, ending>>

\* mutants: the PC is read before the step; the exception is not looked at
MutantStopsStalePc(next, outcome) == PC \in breakpoints \/ outcome # 0
MutantStopsBreakpointOnly(next, outcome) == next \in breakpoints

Stops(next, outcome) == next \in breakpoints \/ outcome # 0

ContIterates ==
    /\ Alive /\ gdb \in {"do", "while"}
    /\ \E next \in Pc, outcome \in Result :
          /\ arm_step(next, outcome)
          /\ IF Stops(next, outcome)
             THEN gdb' = "unlock" /\ Reply
             ELSE gdb' = "while" /\ UNCHANGED replies
    /\ UNCHANGED <<lock, breakpoints, command, irq, client, source, ending>>

\* mutant: a handler returns without releasing the lock
MutantGdbUnlocks ==
    /\ Alive /\ gdb = "unlock"
    /\ gdb' = "scan"
    /\ UNCHANGED <<lock, cpu, breakpoints, command, irq, client, replies, source, ending>>

GdbUnlocks ==
    /\ Alive /\ gdb = "unlock"
    /\ lock' = "free" /\ gdb' = "scan"
    /\ UNCHANGED <<cpu, breakpoints, command, irq, client, replies, source, ending>>

(* The scanner meets the end of the connection: the thread is over.        *)
GdbExits ==
    /\ Alive /\ gdb = "scan" /\ inbox = NoPacket /\ eof
    /\ gdb' = "exited"
    /\ UNCHANGED <<lock, cpu, breakpoints, command, irq, client, replies, source, ending>>

-----------------------------------------------------------------------------
(* The irq thread.                                                         *)
IrqReads ==
    /\ Alive /\ irq = "read" /\ bytes > 0
    /\ bytes' = bytes - 1 /\ irq' = "lock"
    /\ UNCHANGED <<lock, cpu, breakpoints, gdb, command, client, replies, raised, ending>>

\* mutant: the lock is not taken
MutantIrqLocks ==
    /\ Alive /\ irq = "lock"
    /\ irq' = "handle"
    /\ UNCHANGED <<lock, cpu, breakpoints, gdb, command, client, replies, source, ending>>

IrqLocks ==
    /\ Alive /\ irq = "lock" /\ lock = "free"
    /\ lock' = "irq" /\ irq' = "handle"
    /\ UNCHANGED <<cpu, breakpoints, gdb, command, client, replies, source, ending>>

(* A byte that names no vectored exception moves nothing.                  *)
arm_exception ==
    /\ Alive /\ irq = "handle"
    /\ PC' \in {Handler, PC} /\ irq' = "unlock"
    /\ UNCHANGED <<lock, target_exception, breakpoints, gdb, command, client, replies, source, ending>>

IrqUnlocks ==
    /\ Alive /\ irq = "unlock"
    /\ lock' = "free" /\ irq' = "read"
    /\ UNCHANGED <<cpu, breakpoints, gdb, command, client, replies, source, ending>>

-----------------------------------------------------------------------------
(* main: arm_destroy frees the memory and the registers it was given, and  *)
(* main frees them once more.                                              *)
Free(objects) == freed' = [o \in Objects |-> IF o \in objects THEN freed[o] + 1 ELSE freed[o]]

MainStep(from, to, objects) ==
    /\ main = from /\ main' = to
    /\ Free(objects)
    /\ UNCHANGED <<lock, cpu, breakpoints, gdb, command, irq, client, replies, source>>

MainJoins           == gdb = "exited" /\ MainStep("join", "destroy_arm", {})
arm_destroy         == MainStep("destroy_arm", "destroy_registers", {"mem", "reg", "arm"})
registers_destroy   == MainStep("destroy_registers", "destroy_memory", {"reg"})
memory_destroy      == MainStep("destroy_memory", "exited", {"mem"})

-----------------------------------------------------------------------------
GdbThread  == gdb_packet_analysis \/ GdbLocks \/ Handle \/ EnterCont \/ ContIterates
                \/ GdbUnlocks \/ GdbExits
IrqThread  == IrqReads \/ IrqLocks \/ arm_exception \/ IrqUnlocks
MainThread == MainJoins \/ arm_destroy \/ registers_destroy \/ memory_destroy

(* Nothing happens once main has returned.                                 *)
Over == ~Alive /\ UNCHANGED vars

Next == \/ \E c \in Commands : DebuggerSends(c)
        \/ DebuggerCloses
        \/ IrqSent
        \/ GdbThread \/ IrqThread \/ MainThread
        \/ Over

Spec == Init /\ [][Next]_vars

(* A thread that can run is run.  The debugger and the sender of           *)
(* interrupts owe nothing, and no fairness is asked of the lock.           *)
Fairness == WF_vars(GdbThread) /\ WF_vars(IrqThread) /\ WF_vars(MainThread)

FairSpec == Spec /\ Fairness

-----------------------------------------------------------------------------
GdbHolds == gdb \in {"handle", "do", "while", "unlock"}
IrqHolds == irq \in {"handle", "unlock"}

(* Only the holder of the lock is at a place where it may touch the        *)
(* processor (src/gdb_protocol.c 499-501, src/arm_simulator.c 100-102).    *)
LockDiscipline == /\ GdbHolds <=> lock = "gdb"
                  /\ IrqHolds <=> lock = "irq"

(* While cont goes on, the instruction about to be executed carries no     *)
(* breakpoint and the last one raised nothing: an interrupt cannot move    *)
(* the PC onto a breakpoint behind the test of the loop                    *)
(* (src/gdb_protocol.c lines 188-199).                                     *)
ContRespectsBreakpoints ==
    gdb = "while" => PC \notin breakpoints /\ target_exception = 0

(* Every packet but a kill is answered once: the debugger is never a reply *)
(* short or a reply ahead.                                                 *)
Unanswered == IF inbox # NoPacket \/ gdb \in {"lock", "handle", "do", "while"} THEN 1 ELSE 0
OneReplyEach == ~Killed => replies + Unanswered = sent

(* A continued or stepped program gives the debugger its answer, when      *)
(* every run of the program ends in an exception.                          *)
CommandsReturn == inbox # NoPacket ~> inbox = NoPacket /\ gdb \in {"scan", "exited"}

(* An interrupt that is sent is taken (unless the simulator exits).        *)
InterruptsTaken == bytes > 0 ~> (bytes = 0 /\ irq = "read") \/ ~Alive

(* "If any of the allocated memory isn't NULL, we free it"                 *)
(* (src/registers.c line 129): what a destructor frees is allocated, so    *)
(* nothing is freed a second time.                                         *)
FreesAllocatedMemory == \A o \in Objects : freed[o] <= 1
=============================================================================
