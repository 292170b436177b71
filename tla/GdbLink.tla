------------------------------ MODULE GdbLink ------------------------------
(***************************************************************************)
(* The link between the debugger and the simulator: packets with a         *)
(* checksum, acknowledged by + or refused by -, and the scanner that cuts  *)
(* the bytes into packets, acknowledgements and junk (src/scanner.l, the   *)
(* packet layer of src/gdb_protocol.c).                                    *)
(*                                                                         *)
(* The debugger is external: it makes N requests, one at a time, sends the *)
(* request again when it is refused and ignores what it does not wait for. *)
(* The connection delivers bytes in order; a packet may be damaged on the  *)
(* way (its checksum no longer matches), and a junk byte is one outside    *)
(* any packet, such as the interrupt character the debugger sends while    *)
(* the target runs.                                                        *)
(***************************************************************************)
EXTENDS Integers, Sequences

CONSTANTS N,                 \* requests of a session
          MAX_ERROR_SIZE,    \* the junk the scanner holds, 1024 in the code
          MaxDamages,        \* bound on damaged packets
          MaxJunk            \* bound on junk bytes

ASSUME LinkAssumption == /\ N \in Nat
                         /\ MAX_ERROR_SIZE \in Nat /\ MAX_ERROR_SIZE > 1
                         /\ MaxDamages \in Nat /\ MaxJunk \in Nat

VARIABLES current,       \* the request the debugger is at
          waiting,       \* for what: "nothing", "ack", "answer", "end"
          answered,      \* the requests whose answers it took, one for each of its own
          toStub,        \* bytes on the way to the simulator, cut in tokens
          toDebugger,    \* and back
          len,           \* junk bytes the scanner holds
          packet,        \* whose answer gdb->packet holds, 0 before the first
          scanning,      \* the scanner has not reached the end of file
          executed,      \* the requests whose handler ran, in order
          damages, junk  \* faults so far

debugger == <<current, waiting, answered>>
stub     == <<len, packet, scanning, executed>>
faults   == <<damages, junk>>
vars     == <<debugger, toStub, toDebugger, stub, faults>>

Packet(id, sound) == [token |-> "packet", id |-> id, sound |-> sound]
Plus     == [token |-> "+"]
Minus    == [token |-> "-"]
Junk     == [token |-> "junk"]
EndOfFile == [token |-> "eof"]

Token == [token : {"+", "-", "junk", "eof"}]
           \cup [token : {"packet"}, id : 0 .. N, sound : BOOLEAN]

-----------------------------------------------------------------------------
(* The debugger.                                                           *)
Request ==
    /\ waiting = "nothing"
    /\ IF current < N
       THEN /\ current' = current + 1 /\ waiting' = "ack"
            /\ toStub' = Append(toStub, Packet(current + 1, TRUE))
       ELSE /\ waiting' = "end" /\ UNCHANGED current
            /\ toStub' = Append(toStub, EndOfFile)
    /\ UNCHANGED <<answered, toDebugger, stub, faults>>

Heard == Head(toDebugger)

DebuggerHears == /\ toDebugger # << >> /\ waiting \in {"ack", "answer"}
                 /\ toDebugger' = Tail(toDebugger)
                 /\ UNCHANGED <<current, stub, faults>>

Acknowledged == /\ DebuggerHears /\ waiting = "ack" /\ Heard = Plus
                /\ waiting' = "answer" /\ UNCHANGED <<answered, toStub>>

AskedAgain == /\ DebuggerHears /\ waiting = "ack" /\ Heard = Minus
              /\ toStub' = Append(toStub, Packet(current, TRUE))
              /\ UNCHANGED <<waiting, answered>>

Answered == /\ DebuggerHears /\ waiting = "answer" /\ Heard.token = "packet"
            /\ IF Heard.sound
               THEN /\ waiting' = "nothing" /\ answered' = Append(answered, Heard.id)
                    /\ toStub' = Append(toStub, Plus)
               ELSE /\ toStub' = Append(toStub, Minus)
                    /\ UNCHANGED <<waiting, answered>>

Ignored == /\ DebuggerHears
           /\ \/ waiting = "ack" /\ Heard.token = "packet"
              \/ waiting = "answer" /\ Heard \in {Plus, Minus}
           /\ UNCHANGED <<waiting, answered, toStub>>

-----------------------------------------------------------------------------
(* The scanner.  Every token but junk first gets rid of the junk before it *)
(* (handle_error), with a request for retransmission.                      *)
Said == Head(toStub)

ScannerReads(token) == /\ scanning /\ toStub # << >> /\ Said.token = token
                       /\ toStub' = Tail(toStub)
                       /\ UNCHANGED <<debugger, faults>>

\* mutant: nothing is sent
MutantRetransmission(out) == out

gdb_require_retransmission(out) == Append(out, Minus)

handle_error(out) == IF len > 0 THEN gdb_require_retransmission(out) ELSE out

ReadAck == /\ ScannerReads("+")
           /\ toDebugger' = handle_error(toDebugger) /\ len' = 0
           /\ UNCHANGED <<packet, scanning, executed>>

gdb_transmit_packet(out, id) == IF id = 0 THEN out ELSE Append(out, Packet(id, TRUE))

ReadRefusal ==
    /\ ScannerReads("-")
    /\ toDebugger' = gdb_transmit_packet(handle_error(toDebugger), packet) /\ len' = 0
    /\ UNCHANGED <<packet, scanning, executed>>

\* mutant: the handler runs whatever the checksum says
MutantExecuted(request) == Append(executed, request.id)

\* mutant: the request is looked for in the buffer of the answer
MutantExecutedAnswer(request) == Append(executed, packet)

Executed(request) == IF request.sound THEN Append(executed, request.id) ELSE executed

(* gdb_packet_analysis: a damaged packet is refused; a sound one is        *)
(* acknowledged, executed and answered.                                    *)
ReadPacket ==
    /\ ScannerReads("packet")
    /\ LET cleared == handle_error(toDebugger)
       IN  IF Said.sound
           THEN /\ toDebugger' = gdb_transmit_packet(Append(cleared, Plus), Said.id)
                /\ packet' = Said.id
           ELSE /\ toDebugger' = gdb_require_retransmission(cleared)
                /\ UNCHANGED packet
    /\ executed' = Executed(Said)
    /\ len' = 0
    /\ UNCHANGED scanning

MutantNoRoom == len > MAX_ERROR_SIZE - 1     \* mutant: off by one

NoRoom == len > MAX_ERROR_SIZE - 2

(* add_character_to_error                                                  *)
ReadJunk ==
    /\ ScannerReads("junk")
    /\ toDebugger' = IF NoRoom THEN handle_error(toDebugger) ELSE toDebugger
    /\ len' = IF NoRoom THEN 1 ELSE len + 1
    /\ UNCHANGED <<packet, scanning, executed>>

ReadEndOfFile ==
    /\ ScannerReads("eof")
    /\ toDebugger' = handle_error(toDebugger) /\ len' = 0
    /\ scanning' = FALSE
    /\ UNCHANGED <<packet, executed>>

-----------------------------------------------------------------------------
(* The faults of the connection.                                           *)
DamagedAt(channel, i) == [channel EXCEPT ![i] = Packet(@.id, FALSE)]

Damage ==
    /\ damages < MaxDamages /\ damages' = damages + 1
    /\ \/ /\ \E i \in DOMAIN toStub : /\ toStub[i].token = "packet" /\ toStub[i].sound
                                      /\ toStub' = DamagedAt(toStub, i)
          /\ UNCHANGED toDebugger
       \/ /\ \E i \in DOMAIN toDebugger : /\ toDebugger[i].token = "packet" /\ toDebugger[i].sound
                                          /\ toDebugger' = DamagedAt(toDebugger, i)
          /\ UNCHANGED toStub
    /\ UNCHANGED <<debugger, stub, junk>>

JunkByte == /\ junk < MaxJunk /\ junk' = junk + 1
            /\ waiting # "end"
            /\ toStub' = Append(toStub, Junk)
            /\ UNCHANGED <<debugger, toDebugger, stub, damages>>

-----------------------------------------------------------------------------
Init == /\ current = 0 /\ waiting = "nothing" /\ answered = << >>
        /\ toStub = << >> /\ toDebugger = << >>
        /\ len = 0 /\ packet = 0 /\ scanning = TRUE /\ executed = << >>
        /\ damages = 0 /\ junk = 0

Debugger == Request \/ Acknowledged \/ AskedAgain \/ Answered \/ Ignored
Scanner  == ReadAck \/ ReadRefusal \/ ReadPacket \/ ReadJunk \/ ReadEndOfFile

Next == Debugger \/ Scanner \/ Damage \/ JunkByte

(* The debugger goes on with its session; the scanner's thread blocks in   *)
(* read only while there is nothing to read.                               *)
Spec == Init /\ [][Next]_vars /\ WF_vars(Debugger) /\ WF_vars(Scanner)

-----------------------------------------------------------------------------
TypeOK == /\ current \in 0 .. N /\ answered \in Seq(0 .. N)
          /\ waiting \in {"nothing", "ack", "answer", "end"}
          /\ toStub \in Seq(Token) /\ toDebugger \in Seq(Token)
          /\ len \in Nat /\ packet \in 0 .. N /\ scanning \in BOOLEAN
          /\ executed \in Seq(1 .. N)
          /\ damages \in 0 .. MaxDamages /\ junk \in 0 .. MaxJunk

(* The junk and the zero that ends it stay in the scanner's buffer: the    *)
(* buffer is emptied one byte before it is full (src/scanner.l lines 40-54)*)
JunkFits == len + 1 <= MAX_ERROR_SIZE

(* As long as no junk was sent, every step of the link is a step of the    *)
(* requests the debugger is promised, or none it sees: each is executed    *)
(* once, in order, and the answer taken for it before the next is its own, *)
(* whatever packets are damaged on the way and sent again.  After a junk   *)
(* byte it is no longer so: the - that handle_error sends (src/scanner.l   *)
(* lines 40-48) reaches the debugger before the + of a sound request,      *)
(* which is then sent, executed and answered again.                        *)
Abstract == INSTANCE Requests

ImplementsRequests ==
    /\ Abstract!Init
    /\ [][junk' = 0 => Abstract!Next \/ UNCHANGED <<executed, answered>>]_vars

(* A session that began ends: the debugger takes a packet as the answer of *)
(* each request, and the scanner reaches the end of file, and with it its  *)
(* thread the end of gdb_scanner, whatever was damaged and however much    *)
(* junk it got (src/scanner.l lines 40-72).  Each answer is the one of     *)
(* its request if there was no junk; after junk it may be that of an       *)
(* earlier request, for one that was executed twice is answered twice, and *)
(* the last answers are then not heard.                                    *)
SessionEnds ==
    current > 0 ~> /\ Len(answered) = N /\ ~scanning
                   /\ \A i \in 1 .. N : answered[i] \in (i - junk) .. i
=============================================================================
