-------------------------- MODULE Simulator_proofs --------------------------
(***************************************************************************)
(* Proofs about Simulator: its types, the lock, the loop of cont and the   *)
(* replies, for every program, every set of addresses and every bound.     *)
(***************************************************************************)
EXTENDS Simulator, TLAPS

(* What the four invariants need to be inductive: a packet being served    *)
(* leaves the inbox empty, a kill is the last packet, cont is served by a  *)
(* "c", main frees in its order, and a byte is read after it is sent.      *)
Serving == gdb \in {"lock", "handle", "do", "while"}

OneAtATime == /\ Serving => inbox = NoPacket
              /\ command.op = "k" => inbox = NoPacket
              /\ gdb \in {"do", "while"} => command.op = "c"
              /\ gdb \in {"lock", "handle"} => command.op # "unknown"

FreedInOrder ==
    /\ main \in {"join", "destroy_arm"} => \A o \in Objects : freed[o] = 0
    /\ main = "destroy_registers" => \A o \in Objects : freed[o] = 1
    /\ main = "destroy_memory" => \A o \in Objects : freed[o] = IF o = "reg" THEN 2 ELSE 1

BytesWereSent == bytes <= raised

IInv == /\ TypeOK
        /\ LockDiscipline
        /\ ContRespectsBreakpoints
        /\ OneReplyEach
        /\ OneAtATime
        /\ FreedInOrder
        /\ BytesWereSent

(* The simulator starts with the lock free and nothing sent.               *)
LEMMA InitInv == Init => IInv
  <1> SUFFICES ASSUME Init PROVE IInv
      OBVIOUS
  <1> USE DEF Init
  <1>1. freed \in [Objects -> 0 .. 2]
        BY DEF Objects
  <1>2. TypeOK
    <2>1. 0 \in Result /\ 0 \in 0 .. MaxCommands /\ 0 \in 0 .. MaxInterrupts
          BY BoundsAssumption DEF Result
    <2> QED  BY <1>1, <2>1, PcAssumption DEF TypeOK
  <1>3. LockDiscipline /\ ContRespectsBreakpoints /\ OneReplyEach
        BY DEF LockDiscipline, GdbHolds, IrqHolds, ContRespectsBreakpoints, OneReplyEach, Unanswered
  <1>4. OneAtATime /\ FreedInOrder /\ BytesWereSent
        BY DEF OneAtATime, Serving, FreedInOrder, BytesWereSent
  <1> QED  BY <1>2, <1>3, <1>4 DEF IInv

(* A packet and its answer.                                                *)
LEMMA PacketType ==
  /\ \A c \in Commands \cup {NoPacket} : c.op \in {"c", "s", "?", "k", "unknown", "Z", "z", "P", "none"}
  /\ \A c \in Commands : c.op # "none" /\ c # NoPacket /\ c.at \in Pc
  /\ NoPacket.op = "none"
  BY PcAssumption DEF Commands, NoPacket

(* What the outside does to the inbox and to the bytes waiting.            *)
LEMMA OutsideInv ==
  ASSUME IInv, NEW c \in Commands, DebuggerSends(c) \/ DebuggerCloses \/ IrqSent
  PROVE  IInv'
  <1> USE PacketType DEF DebuggerSends, DebuggerCloses, IrqSent, cpu, source, ending, client, IInv
  <1>1. TypeOK'
    <2>1. inbox' \in Commands \cup {NoPacket} /\ eof' \in BOOLEAN
          BY DEF TypeOK
    <2>2. sent' \in 0 .. MaxCommands
          BY BoundsAssumption DEF TypeOK
    <2>3. bytes' \in 0 .. MaxInterrupts /\ raised' \in 0 .. MaxInterrupts
          BY BoundsAssumption DEF TypeOK, BytesWereSent
    <2> QED  BY <2>1, <2>2, <2>3 DEF TypeOK
  <1>2. LockDiscipline'           BY DEF LockDiscipline, GdbHolds, IrqHolds
  <1>3. ContRespectsBreakpoints'  BY DEF ContRespectsBreakpoints
  <1>4. OneReplyEach'             BY DEF OneReplyEach, Unanswered, Killed, OneAtATime, TypeOK
  <1>5. OneAtATime'
        BY DEF OneAtATime, Serving, OneReplyEach, Unanswered, Killed, TypeOK
  <1>6. FreedInOrder'             BY DEF FreedInOrder
  <1>7. BytesWereSent'            BY DEF BytesWereSent, TypeOK
  <1> QED  BY <1>1, <1>2, <1>3, <1>4, <1>5, <1>6, <1>7

(* What the gdb thread does with a packet.                                 *)
LEMMA PacketInv ==
  ASSUME IInv, gdb_packet_analysis \/ GdbLocks \/ EnterCont \/ GdbUnlocks \/ GdbExits
  PROVE  IInv'
  <1> USE PacketType DEF gdb_packet_analysis, GdbLocks, EnterCont, GdbUnlocks, GdbExits,
          cpu, source, ending, client, IInv
  <1>1. TypeOK'
        BY DEF TypeOK, OneReplyEach, Unanswered, Killed, OneAtATime
  <1>2. LockDiscipline'           BY DEF LockDiscipline, GdbHolds, IrqHolds, TypeOK
  <1>3. ContRespectsBreakpoints'  BY DEF ContRespectsBreakpoints
  <1>4. OneReplyEach'             BY DEF OneReplyEach, Unanswered, Killed, OneAtATime, Serving, TypeOK
  <1>5. OneAtATime'
        BY DEF OneAtATime, Serving, TypeOK
  <1>6. FreedInOrder'             BY DEF FreedInOrder
  <1>7. BytesWereSent'            BY DEF BytesWereSent
  <1> QED  BY <1>1, <1>2, <1>3, <1>4, <1>5, <1>6, <1>7

(* What a handler does, other than cont.                                   *)
LEMMA HandleInv ==
  ASSUME IInv, Handle
  PROVE  IInv'
  <1> USE PacketType DEF Handle, source, ending, client, IInv, step, reason, kill_request,
          set_breakpoint, remove_breakpoint, write_single_register, Reply, cpu, arm_step
  <1>1. command \in Commands
        BY DEF TypeOK
  <1>2. TypeOK'
        BY <1>1 DEF TypeOK, OneReplyEach, Unanswered, Killed, OneAtATime, Serving
  <1>3. LockDiscipline'           BY DEF LockDiscipline, GdbHolds, IrqHolds, TypeOK
  <1>4. ContRespectsBreakpoints'  BY DEF ContRespectsBreakpoints
  <1>5. OneReplyEach'
        BY <1>1 DEF OneReplyEach, Unanswered, Killed, OneAtATime, Serving, TypeOK
  <1>6. OneAtATime'               BY DEF OneAtATime, Serving, TypeOK
  <1>7. FreedInOrder'             BY DEF FreedInOrder
  <1>8. BytesWereSent'            BY DEF BytesWereSent
  <1> QED  BY <1>2, <1>3, <1>4, <1>5, <1>6, <1>7, <1>8

(* One turn of the loop of cont.                                           *)
LEMMA ContInv ==
  ASSUME IInv, ContIterates
  PROVE  IInv'
  <1> USE PacketType DEF ContIterates, source, ending, client, IInv, Reply, arm_step
  <1>1. TypeOK'
        BY DEF TypeOK, OneReplyEach, Unanswered, Killed, OneAtATime, Serving
  <1>2. LockDiscipline'           BY DEF LockDiscipline, GdbHolds, IrqHolds, TypeOK
  <1>3. ContRespectsBreakpoints'  BY DEF ContRespectsBreakpoints, Stops
  <1>4. OneReplyEach'             BY DEF OneReplyEach, Unanswered, Killed, OneAtATime, Serving, TypeOK
  <1>5. OneAtATime'               BY DEF OneAtATime, Serving, TypeOK
  <1>6. FreedInOrder'             BY DEF FreedInOrder
  <1>7. BytesWereSent'            BY DEF BytesWereSent
  <1> QED  BY <1>1, <1>2, <1>3, <1>4, <1>5, <1>6, <1>7

(* The interrupt thread: the lock it takes is what keeps the PC still      *)
(* under cont.                                                             *)
LEMMA IrqInv ==
  ASSUME IInv, IrqThread
  PROVE  IInv'
  <1> USE DEF IrqThread, IrqReads, IrqLocks, arm_exception, IrqUnlocks,
          cpu, source, ending, client, IInv
  <1>1. TypeOK'
    <2>1. PC' \in Pc
          BY PcAssumption DEF TypeOK
    <2>2. bytes' \in 0 .. MaxInterrupts
          BY BoundsAssumption DEF TypeOK
    <2> QED  BY <2>1, <2>2 DEF TypeOK
  <1>2. LockDiscipline'           BY DEF LockDiscipline, GdbHolds, IrqHolds, TypeOK
  <1>3. ContRespectsBreakpoints'
        BY DEF ContRespectsBreakpoints, LockDiscipline, GdbHolds, IrqHolds
  <1>4. OneReplyEach'             BY DEF OneReplyEach, Unanswered, Killed
  <1>5. OneAtATime'               BY DEF OneAtATime, Serving
  <1>6. FreedInOrder'             BY DEF FreedInOrder
  <1>7. BytesWereSent'            BY DEF BytesWereSent, TypeOK
  <1> QED  BY <1>1, <1>2, <1>3, <1>4, <1>5, <1>6, <1>7

(* main joins, frees and exits.                                            *)
LEMMA MainInv ==
  ASSUME IInv, MainThread
  PROVE  IInv'
  <1> USE DEF MainThread, MainJoins, arm_destroy, registers_destroy, memory_destroy, MainStep,
          cpu, source, client, IInv
  <1>1. freed' = [o \in Objects |-> freed'[o]] /\ \A o \in Objects : freed'[o] \in 0 .. 2
        BY DEF Free, FreedInOrder, TypeOK, Objects
  <1>2. TypeOK'                   BY <1>1 DEF TypeOK
  <1>3. LockDiscipline'           BY DEF LockDiscipline, GdbHolds, IrqHolds
  <1>4. ContRespectsBreakpoints'  BY DEF ContRespectsBreakpoints
  <1>5. OneReplyEach'             BY DEF OneReplyEach, Unanswered, Killed
  <1>6. OneAtATime'               BY DEF OneAtATime, Serving
  <1>7. FreedInOrder'             BY DEF FreedInOrder, Free, Objects, TypeOK
  <1>8. BytesWereSent'            BY DEF BytesWereSent
  <1> QED  BY <1>2, <1>3, <1>4, <1>5, <1>6, <1>7, <1>8

(* A step that changes nothing.                                            *)
LEMMA StutterInv ==
  ASSUME IInv, UNCHANGED vars
  PROVE  IInv'
  BY DEF vars, IInv, TypeOK, LockDiscipline, GdbHolds, IrqHolds, ContRespectsBreakpoints,
         OneReplyEach, Unanswered, Killed, OneAtATime, Serving, FreedInOrder, BytesWereSent

(* Every step keeps the invariant.                                         *)
LEMMA StepInv == IInv /\ [Next]_vars => IInv'
  <1> SUFFICES ASSUME IInv, [Next]_vars PROVE IInv'
      OBVIOUS
  <1>1. CASE \E c \in Commands : DebuggerSends(c)
        BY <1>1, OutsideInv
  <1>2. CASE DebuggerCloses \/ IrqSent
    <2>1. [op |-> "c", at |-> Entry] \in Commands
          BY DEF Commands
    <2> QED  BY <1>2, <2>1, OutsideInv
  <1>3. CASE GdbThread
        BY <1>3, PacketInv, HandleInv, ContInv DEF GdbThread
  <1>4. CASE IrqThread
        BY <1>4, IrqInv
  <1>5. CASE MainThread
        BY <1>5, MainInv
  <1>6. CASE Over \/ UNCHANGED vars
        BY <1>6, StutterInv DEF Over
  <1> QED  BY <1>1, <1>2, <1>3, <1>4, <1>5, <1>6 DEF Next

(* Every state of the simulator satisfies the invariant.                   *)
THEOREM Invariant == Spec => []IInv
  BY InitInv, StepInv, PTL DEF Spec

(* The types of the state (src/arm_simulator.c, src/gdb_protocol.c).       *)
THEOREM TypeCorrect == Spec => []TypeOK
  <1>1. IInv => TypeOK
        BY DEF IInv
  <1> QED  BY <1>1, Invariant, PTL

(* The processor is touched by the holder of the lock only, whatever the   *)
(* debugger and the sender of interrupts do.                               *)
THEOREM LockDisciplineHolds == Spec => []LockDiscipline
  <1>1. IInv => LockDiscipline
        BY DEF IInv
  <1> QED  BY <1>1, Invariant, PTL

(* cont never runs an instruction that carries a breakpoint after its      *)
(* first one, nor past an exception, whatever interrupts arrive.           *)
THEOREM ContStops == Spec => []ContRespectsBreakpoints
  <1>1. IInv => ContRespectsBreakpoints
        BY DEF IInv
  <1> QED  BY <1>1, Invariant, PTL

(* The debugger is never a reply short or a reply ahead.                   *)
THEOREM OneReply == Spec => []OneReplyEach
  <1>1. IInv => OneReplyEach
        BY DEF IInv
  <1> QED  BY <1>1, Invariant, PTL

=============================================================================
