------------------------- MODULE Connections_proofs -------------------------
(***************************************************************************)
(* Proofs about the edges of the two threads, for any number of requests,  *)
(* faults, clients, bytes and lines.  The link to the debugger: the junk   *)
(* counted by len leaves room for the zero that ends it; and, until there  *)
(* is junk, what is on the way in either direction is always one of seven  *)
(* phases of a request, so a request is executed once and answered once.   *)
(* The servers: what is raised, held and on the wire is what was written,  *)
(* and one client is served at a time.  The traces: the stack is the lines *)
(* of the accesses the holder of the lock has begun.                       *)
(***************************************************************************)
EXTENDS GdbLink, Listeners, Tracing, SequenceTheorems, FiniteSetTheorems, TLAPS

-----------------------------------------------------------------------------
(* The fields of the tokens, by which they differ.                         *)
LEMMA Tokens ==
  /\ \A id, sound : LET p == Packet(id, sound)
                    IN  p.token = "packet" /\ p.id = id /\ p.sound = sound
  /\ Plus.token = "+" /\ Minus.token = "-" /\ EndOfFile.token = "eof"
  BY DEF Packet, Plus, Minus, EndOfFile

-----------------------------------------------------------------------------
(* The buffer of the scanner.                                              *)
BufferInv == len \in 0 .. MAX_ERROR_SIZE - 1

(* A byte is added after the buffer was emptied, or where one more fits.   *)
LEMMA BufferStep == BufferInv /\ [Next]_vars => BufferInv'
  <1> SUFFICES ASSUME BufferInv, [Next]_vars PROVE BufferInv'
      OBVIOUS
  <1> USE LinkAssumption DEF BufferInv
  <1>1. CASE ReadJunk
        BY <1>1 DEF ReadJunk, NoRoom
  <1>2. CASE ReadAck \/ ReadRefusal \/ ReadPacket \/ ReadEndOfFile
        BY <1>2 DEF ReadAck, ReadRefusal, ReadPacket, ReadEndOfFile
  <1>3. CASE Debugger \/ Damage \/ JunkByte \/ UNCHANGED vars
        BY <1>3 DEF Debugger, Request, Acknowledged, AskedAgain, Answered, Ignored,
                    DebuggerHears, Damage, JunkByte, vars, stub
  <1> QED  BY <1>1, <1>2, <1>3 DEF Next, Scanner

(* The junk and the zero after it fit in the buffer, for every size of it  *)
(* and any number of junk bytes (add_character_to_error and handle_error,  *)
(* src/scanner.l lines 40-54).                                             *)
THEOREM JunkAlwaysFits == Spec => []JunkFits
  <1>1. Init => BufferInv
        BY LinkAssumption DEF Init, BufferInv
  <1>2. BufferInv => JunkFits
        BY LinkAssumption DEF BufferInv, JunkFits
  <1> QED  BY <1>1, <1>2, BufferStep, PTL DEF Spec

-----------------------------------------------------------------------------
(* Types.  What goes to the simulator are requests that were made, from 1. *)
StubToken == [token : {"+", "-", "junk", "eof"}]
               \cup [token : {"packet"}, id : 1 .. N, sound : BOOLEAN]

ChannelInv == toStub \in Seq(StubToken) /\ toDebugger \in Seq(Token)

CountInv == /\ current \in 0 .. N /\ answered \in Seq(0 .. N)
            /\ waiting \in {"nothing", "ack", "answer", "end"}
            /\ waiting = "ack" => current # 0
            /\ packet \in 0 .. N /\ scanning \in BOOLEAN
            /\ executed \in Seq(1 .. N)
            /\ damages \in 0 .. MaxDamages /\ junk \in 0 .. MaxJunk

(* Every token sent is a token, and a damaged packet is still one.         *)
LEMMA TokenTypes ==
  /\ {Plus, Minus, Junk, EndOfFile} \subseteq StubToken
  /\ StubToken \subseteq Token
  /\ \A id \in 1 .. N : \A sound \in BOOLEAN : Packet(id, sound) \in StubToken
  /\ \A id \in 0 .. N : \A sound \in BOOLEAN : Packet(id, sound) \in Token
  /\ \A t \in StubToken : t.token = "packet" => t.id \in 1 .. N /\ t.sound \in BOOLEAN
  /\ \A t \in Token : t.token = "packet" => t.id \in 0 .. N /\ t.sound \in BOOLEAN
  BY LinkAssumption DEF StubToken, Token, Plus, Minus, Junk, EndOfFile, Packet

(* A sequence of some tokens is one of more tokens.                        *)
LEMMA MoreTokens ==
  ASSUME NEW S, NEW T, S \subseteq T, NEW s \in Seq(S)
  PROVE  s \in Seq(T)
  OBVIOUS

(* Sending keeps a channel typed, damaging too.                            *)
LEMMA Sent ==
  ASSUME NEW S, NEW s \in Seq(S), NEW x \in S
  PROVE  Append(s, x) \in Seq(S)
  BY AppendProperties

LEMMA Heads ==
  ASSUME NEW S, NEW s \in Seq(S), s # << >>
  PROVE  Head(s) \in S /\ Tail(s) \in Seq(S)
  BY HeadTailProperties

LEMMA DamageTypes ==
  ASSUME NEW S, NEW s \in Seq(S), NEW i \in DOMAIN s, Packet(s[i].id, FALSE) \in S
  PROVE  DamagedAt(s, i) \in Seq(S)
  <1>1. i \in 1 .. Len(s)
        OBVIOUS
  <1>2. [s EXCEPT ![i] = Packet(s[i].id, FALSE)] \in Seq(S)
        BY <1>1, ExceptSeq
  <1> QED  BY <1>2 DEF DamagedAt

(* What the debugger sends and hears.                                      *)
LEMMA DebuggerTypes == ChannelInv /\ CountInv /\ Debugger => ChannelInv' /\ CountInv'
  <1> SUFFICES ASSUME ChannelInv, CountInv, Debugger PROVE ChannelInv' /\ CountInv'
      OBVIOUS
  <1>1. \A t \in {Plus, Minus, EndOfFile} : Append(toStub, t) \in Seq(StubToken)
        BY Sent, TokenTypes DEF ChannelInv
  <1>2. \A id \in 1 .. N : Append(toStub, Packet(id, TRUE)) \in Seq(StubToken)
        BY Sent, TokenTypes DEF ChannelInv
  <1>3. CASE Request
    <2>1. CASE current < N
      <3>1. current + 1 \in 1 .. N
            BY <2>1, LinkAssumption DEF CountInv
      <3>2. toStub' = Append(toStub, Packet(current + 1, TRUE)) /\ UNCHANGED toDebugger
            BY <1>3, <2>1 DEF Request
      <3>3. ChannelInv'
            BY <1>2, <3>1, <3>2 DEF ChannelInv
      <3>4. CountInv'
            BY <1>3, <2>1, <3>1 DEF Request, CountInv, stub, faults
      <3> QED  BY <3>3, <3>4
    <2>2. CASE ~(current < N)
      <3>1. ChannelInv'
            BY <1>1, <1>3, <2>2 DEF Request, ChannelInv
      <3>2. CountInv'
            BY <1>3, <2>2 DEF Request, CountInv, stub, faults
      <3> QED  BY <3>1, <3>2
    <2> QED  BY <2>1, <2>2
  <1>4. ASSUME DebuggerHears
        PROVE  /\ toDebugger' \in Seq(Token)
               /\ UNCHANGED <<current, packet, scanning, executed, damages, junk>>
        BY <1>4, Heads DEF DebuggerHears, ChannelInv, stub, faults
  <1>5. CASE AskedAgain
    <2>1. current \in 1 .. N
          BY <1>5, LinkAssumption DEF AskedAgain, CountInv
    <2>2. ChannelInv'
          BY <1>2, <1>4, <1>5, <2>1 DEF AskedAgain, ChannelInv
    <2>3. CountInv'
          BY <1>4, <1>5 DEF AskedAgain, CountInv
    <2> QED  BY <2>2, <2>3
  <1>6. CASE Acknowledged \/ Ignored
    <2>1. DebuggerHears /\ UNCHANGED <<toStub, answered>> /\ waiting' \in {waiting, "answer"}
          BY <1>6 DEF Acknowledged, Ignored
    <2> QED  BY <1>4, <2>1 DEF ChannelInv, CountInv
  <1>7. CASE Answered
    <2>1. ChannelInv'
          BY <1>1, <1>4, <1>7 DEF Answered, ChannelInv
    <2>2. answered' \in Seq(0 .. N)
      <3>1. Heard \in Token /\ Heard.token = "packet" /\ answered \in Seq(0 .. N)
            BY <1>7, Heads DEF Answered, DebuggerHears, Heard, ChannelInv, CountInv
      <3>2. Append(answered, Heard.id) \in Seq(0 .. N)
            BY <3>1, TokenTypes, Sent
      <3> QED  BY <1>7, <3>1, <3>2 DEF Answered
    <2>3. waiting' \in {waiting, "nothing"}
          BY <1>7 DEF Answered
    <2>4. CountInv'
          BY <1>4, <1>7, <2>2, <2>3 DEF Answered, CountInv
    <2> QED  BY <2>1, <2>4
  <1> QED  BY <1>3, <1>5, <1>6, <1>7 DEF Debugger

(* What the scanner reads and answers.                                     *)
LEMMA ScannerTypes == ChannelInv /\ CountInv /\ Scanner => ChannelInv' /\ CountInv'
  <1> SUFFICES ASSUME ChannelInv, CountInv, Scanner PROVE ChannelInv' /\ CountInv'
      OBVIOUS
  <1>1. /\ toStub' \in Seq(StubToken) /\ Said \in StubToken
        /\ UNCHANGED <<current, waiting, answered, damages, junk>>
    <2>1. /\ toStub # << >> /\ toStub' = Tail(toStub)
          /\ UNCHANGED <<current, waiting, answered, damages, junk>>
          BY DEF Scanner, ReadAck, ReadRefusal, ReadPacket, ReadJunk, ReadEndOfFile,
                              ScannerReads,
                 debugger, faults
    <2> QED  BY <2>1, Heads DEF ChannelInv, Said
  <1>2. \A out \in Seq(Token) :
          /\ Append(out, Plus) \in Seq(Token) /\ Append(out, Minus) \in Seq(Token)
          /\ \A id \in 0 .. N : Append(out, Packet(id, TRUE)) \in Seq(Token)
        BY Sent, TokenTypes
  <1>3. handle_error(toDebugger) \in Seq(Token)
        BY <1>2 DEF handle_error, gdb_require_retransmission, ChannelInv
  <1>4. \A out \in Seq(Token) : \A id \in 0 .. N : gdb_transmit_packet(out, id) \in Seq(Token)
        BY <1>2 DEF gdb_transmit_packet
  <1>5. CASE ReadAck \/ ReadEndOfFile
        BY <1>1, <1>3, <1>5 DEF ReadAck, ReadEndOfFile, ChannelInv, CountInv
  <1>6. CASE ReadRefusal
    <2>1. ChannelInv'
          BY <1>1, <1>3, <1>4, <1>6 DEF ReadRefusal, ChannelInv, CountInv
    <2>2. CountInv'
          BY <1>1, <1>6 DEF ReadRefusal, CountInv
    <2> QED  BY <2>1, <2>2
  <1>7. CASE ReadJunk
        BY <1>1, <1>3, <1>7 DEF ReadJunk, ChannelInv, CountInv
  <1>8. CASE ReadPacket
    <2>1. Said.id \in 1 .. N /\ Said.sound \in BOOLEAN
          BY <1>1, <1>8, TokenTypes DEF ReadPacket, ScannerReads
    <2>2. executed' \in Seq(1 .. N)
      <3>1. Append(executed, Said.id) \in Seq(1 .. N)
            BY <2>1, Sent DEF CountInv
      <3> QED  BY <1>8, <3>1 DEF ReadPacket, Executed, CountInv
    <2>3. Said.id \in 0 .. N
          BY <2>1, LinkAssumption
    <2>4. CASE Said.sound
      <3>1. /\ toDebugger' = gdb_transmit_packet(Append(handle_error(toDebugger), Plus), Said.id)
            /\ packet' = Said.id /\ UNCHANGED scanning
            BY <1>8, <2>4 DEF ReadPacket
      <3>2. toDebugger' \in Seq(Token)
            BY <1>2, <1>3, <1>4, <2>3, <3>1
      <3> QED  BY <1>1, <2>2, <2>3, <3>1, <3>2 DEF ChannelInv, CountInv
    <2>5. CASE ~Said.sound
      <3>1. /\ toDebugger' = Append(handle_error(toDebugger), Minus)
            /\ UNCHANGED <<packet, scanning>>
            BY <1>8, <2>5 DEF ReadPacket, gdb_require_retransmission
      <3>2. toDebugger' \in Seq(Token)
            BY <1>2, <1>3, <3>1
      <3> QED  BY <1>1, <2>2, <3>1, <3>2 DEF ChannelInv, CountInv
    <2> QED  BY <2>4, <2>5
  <1> QED  BY <1>5, <1>6, <1>7, <1>8 DEF Scanner

(* A packet damaged, or a junk byte.                                       *)
LEMMA FaultTypes == ChannelInv /\ CountInv /\ (Damage \/ JunkByte) => ChannelInv' /\ CountInv'
  <1> SUFFICES ASSUME ChannelInv, CountInv, Damage \/ JunkByte PROVE ChannelInv' /\ CountInv'
      OBVIOUS
  <1>1. CASE JunkByte
    <2>1. ChannelInv'
          BY <1>1, Sent, TokenTypes DEF JunkByte, ChannelInv
    <2>2. CountInv'
          BY <1>1, LinkAssumption DEF JunkByte, CountInv, debugger, stub
    <2> QED  BY <2>1, <2>2
  <1>2. CASE Damage
    <2>1. CountInv'
          BY <1>2, LinkAssumption DEF Damage, CountInv, debugger, stub
    <2>2. ASSUME NEW i \in DOMAIN toStub, toStub[i].token = "packet"
          PROVE  DamagedAt(toStub, i) \in Seq(StubToken)
      <3>1. toStub[i] \in StubToken
            BY <2>2 DEF ChannelInv
      <3>2. Packet(toStub[i].id, FALSE) \in StubToken
            BY <2>2, <3>1, TokenTypes
      <3> QED  BY <2>2, <3>2, DamageTypes DEF ChannelInv
    <2>3. ASSUME NEW i \in DOMAIN toDebugger, toDebugger[i].token = "packet"
          PROVE  DamagedAt(toDebugger, i) \in Seq(Token)
      <3>1. toDebugger[i] \in Token
            BY <2>3 DEF ChannelInv
      <3>2. Packet(toDebugger[i].id, FALSE) \in Token
            BY <2>3, <3>1, TokenTypes
      <3> QED  BY <2>3, <3>2, DamageTypes DEF ChannelInv
    <2>4. ChannelInv'
          BY <1>2, <2>2, <2>3 DEF Damage, ChannelInv
    <2> QED  BY <2>1, <2>4
  <1> QED  BY <1>1, <1>2

(* Whatever is sent and damaged, the channels hold tokens, the handlers    *)
(* ran for requests of the session, and the answer kept for a              *)
(* retransmission is one of them, for any number of requests and faults    *)
(* (gdb->packet, src/gdb_protocol.c lines 107-128 and 472-511).            *)
THEOREM TypeCorrect == Spec => []TypeOK
  <1>1. Init => ChannelInv /\ CountInv /\ BufferInv
        BY LinkAssumption DEF Init, ChannelInv, CountInv, BufferInv
  <1>2. ChannelInv /\ CountInv /\ [Next]_vars => ChannelInv' /\ CountInv'
    <2> SUFFICES ASSUME ChannelInv, CountInv, [Next]_vars PROVE ChannelInv' /\ CountInv'
        OBVIOUS
    <2>1. CASE UNCHANGED vars
          BY <2>1 DEF vars, debugger, stub, faults, ChannelInv, CountInv
    <2> QED  BY <2>1, DebuggerTypes, ScannerTypes, FaultTypes DEF Next
  <1>3. ChannelInv /\ CountInv /\ BufferInv => TypeOK
        BY MoreTokens, TokenTypes DEF ChannelInv, CountInv, BufferInv, TypeOK
  <1> QED  BY <1>1, <1>2, <1>3, BufferStep, PTL DEF Spec

-----------------------------------------------------------------------------
(* A request that was never made, made, refused, executed and acknowledged,*)
(* acknowledged, answered and answered wrong; and the end of the session.  *)
Done == current = Len(answered) /\ Len(executed) = current
Outstanding == current = Len(answered) + 1 /\ Len(executed) = Len(answered)
Executing == current = Len(answered) + 1 /\ Len(executed) = current /\ packet = current

Idle == /\ waiting = "nothing" /\ Done
        /\ toDebugger = << >> /\ toStub \in {<< >>, <<Plus>>}
Requested == /\ waiting = "ack" /\ Outstanding /\ toDebugger = << >>
             /\ \E sound \in BOOLEAN :
                  toStub \in {<<Packet(current, sound)>>, <<Plus, Packet(current, sound)>>}
Refused == /\ waiting = "ack" /\ Outstanding
           /\ toDebugger = <<Minus>> /\ toStub = << >>
Replied == /\ waiting = "ack" /\ Executing /\ toStub = << >>
           /\ \E sound \in BOOLEAN : toDebugger = <<Plus, Packet(current, sound)>>
Answering == /\ waiting = "answer" /\ Executing /\ toStub = << >>
             /\ \E sound \in BOOLEAN : toDebugger = <<Packet(current, sound)>>
Repeating == /\ waiting = "answer" /\ Executing
             /\ toStub = <<Minus>> /\ toDebugger = << >>
Ending == /\ waiting = "end" /\ Done /\ toDebugger = << >>
          /\ toStub \in {<< >>, <<Plus>>, <<EndOfFile>>, <<Plus, EndOfFile>>}

Counts == /\ current \in 0 .. N /\ answered \in Seq(Nat)
          /\ executed \in Seq(Nat) /\ len = 0 /\ junk = 0

Phase == Idle \/ Requested \/ Refused \/ Replied \/ Answering \/ Repeating \/ Ending

IInv == Counts /\ Phase

(* Sequences of one and of two tokens.                                     *)
LEMMA Channels ==
  ASSUME NEW x, NEW y
  PROVE  /\ << >> # <<x>> /\ << >> # <<x, y>> /\ <<x>> # <<y, x>> /\ <<x>> # <<x, y>>
         /\ Head(<<x>>) = x /\ Tail(<<x>>) = << >>
         /\ Head(<<x, y>>) = x /\ Tail(<<x, y>>) = <<y>>
         /\ Append(<< >>, x) = <<x>> /\ Append(<<x>>, y) = <<x, y>>
  <1>1. << >> # <<x>> /\ << >> # <<x, y>>
        OBVIOUS
  <1>2. Len(<<x>>) = 1 /\ Len(<<x, y>>) = 2 /\ Len(<<y, x>>) = 2
        OBVIOUS
  <1>3. Head(<<x>>) = x /\ Head(<<x, y>>) = x
        OBVIOUS
  <1>4. Tail(<<x>>) = << >>
        OBVIOUS
  <1>5. Tail(<<x, y>>) = <<y>>
        OBVIOUS
  <1>6. Append(<< >>, x) = <<x>>
        OBVIOUS
  <1>7. Append(<<x>>, y) = <<x, y>>
    <2> DEFINE S == {x, y}
    <2>1. <<x>> \in Seq(S) /\ <<x, y>> \in Seq(S) /\ y \in S
          OBVIOUS
    <2>2. /\ Append(<<x>>, y) \in Seq(S) /\ Len(Append(<<x>>, y)) = 2
          /\ Append(<<x>>, y)[1] = x /\ Append(<<x>>, y)[2] = y
          BY <2>1, <1>2, AppendProperties
    <2>3. \A i \in 1 .. 2 : Append(<<x>>, y)[i] = <<x, y>>[i]
          BY <2>2
    <2> QED  BY <2>1, <2>2, <2>3, <1>2, SeqEqual
  <1> QED  BY <1>1, <1>2, <1>3, <1>4, <1>5, <1>6, <1>7

(* Replacing the last of one and of two tokens.                            *)
LEMMA Replaced ==
  ASSUME NEW x, NEW y, NEW z
  PROVE  /\ [<<x>> EXCEPT ![1] = z] = <<z>>
         /\ [<<x, y>> EXCEPT ![2] = z] = <<x, z>>
  <1> DEFINE S == {x, y, z}
  <1>1. /\ <<x>> \in Seq(S) /\ <<z>> \in Seq(S)
        /\ <<x, y>> \in Seq(S) /\ <<x, z>> \in Seq(S) /\ z \in S
        OBVIOUS
  <1>2. Len(<<x>>) = 1 /\ Len(<<z>>) = 1 /\ Len(<<x, y>>) = 2 /\ Len(<<x, z>>) = 2
        OBVIOUS
  <1>3. [<<x>> EXCEPT ![1] = z] = <<z>>
    <2> DEFINE t == [<<x>> EXCEPT ![1] = z]
    <2>1. t \in Seq(S) /\ Len(t) = 1 /\ t[1] = z
          BY <1>1, <1>2, ExceptSeq
    <2>2. \A i \in 1 .. Len(t) : t[i] = <<z>>[i]
          BY <2>1
    <2> HIDE DEF t, S
    <2>3. t = <<z>>
          BY <2>1, <2>2, <1>1, <1>2, SeqEqual
    <2> QED  BY <2>3 DEF t
  <1>4. [<<x, y>> EXCEPT ![2] = z] = <<x, z>>
    <2> DEFINE t == [<<x, y>> EXCEPT ![2] = z]
    <2>1. t \in Seq(S) /\ Len(t) = 2 /\ t[1] = x /\ t[2] = z
          BY <1>1, <1>2, ExceptSeq
    <2>2. \A i \in 1 .. Len(t) : t[i] = <<x, z>>[i]
          BY <2>1
    <2> HIDE DEF t, S
    <2>3. t = <<x, z>>
          BY <2>1, <2>2, <1>1, <1>2, SeqEqual
    <2> QED  BY <2>3 DEF t
  <1> QED  BY <1>3, <1>4

(* A packet that is damaged is the same packet with a wrong checksum.      *)
LEMMA Damaged ==
  ASSUME NEW id, NEW sound, NEW i
  PROVE  /\ i \in DOMAIN <<Packet(id, sound)>> =>
              DamagedAt(<<Packet(id, sound)>>, i) = <<Packet(id, FALSE)>>
         /\ i \in DOMAIN <<Plus, Packet(id, sound)>> /\ i # 1 =>
              DamagedAt(<<Plus, Packet(id, sound)>>, i) = <<Plus, Packet(id, FALSE)>>
  <1> DEFINE p == Packet(id, sound)
  <1>1. ASSUME i \in DOMAIN <<p>>
        PROVE  DamagedAt(<<p>>, i) = <<Packet(id, FALSE)>>
    <2>1. i = 1 /\ <<p>>[i] = p /\ p.id = id
          BY <1>1, Tokens
    <2>2. DamagedAt(<<p>>, i) = [<<p>> EXCEPT ![1] = Packet(<<p>>[1].id, FALSE)]
          BY <2>1 DEF DamagedAt
    <2> QED  BY <2>1, <2>2, Replaced
  <1>2. ASSUME i \in DOMAIN <<Plus, p>>, i # 1
        PROVE  DamagedAt(<<Plus, p>>, i) = <<Plus, Packet(id, FALSE)>>
    <2>1. i = 2 /\ <<Plus, p>>[2] = p /\ p.id = id
          BY <1>2, Tokens
    <2>2. DamagedAt(<<Plus, p>>, i) = [<<Plus, p>> EXCEPT ![2] = Packet(<<Plus, p>>[2].id, FALSE)]
          BY <2>1 DEF DamagedAt
    <2>3. DamagedAt(<<Plus, p>>, i) = [<<Plus, p>> EXCEPT ![2] = Packet(id, FALSE)]
          BY <2>1, <2>2
    <2> HIDE DEF p
    <2> QED  BY <2>3, Replaced
  <1> QED  BY <1>1, <1>2

-----------------------------------------------------------------------------
(* What a step of the link is to the debugger: a request executed, an      *)
(* answer received, or nothing it sees.                                    *)
Promised == Abstract!Next \/ UNCHANGED <<executed, answered>>

(* The debugger makes a request, or ends the session, when it has all its  *)
(* answers.                                                                *)
LEMMA RequestStep == IInv /\ Request => IInv' /\ Promised
  <1> SUFFICES ASSUME IInv, Request PROVE IInv' /\ Promised
      OBVIOUS
  <1>1. Idle /\ Done /\ Counts
        BY DEF IInv, Phase, Request, Idle, Requested, Refused, Replied, Answering, Repeating, Ending
  <1>2. /\ UNCHANGED <<answered, toDebugger, len, packet, executed, junk>>
        /\ toStub \in {<< >>, <<Plus>>} /\ toDebugger = << >>
        BY <1>1 DEF Idle, Request, stub, faults
  <1>3. CASE current < N
    <2>1. current' = current + 1 /\ waiting' = "ack"
          BY <1>3 DEF Request
    <2>2. toStub' \in {<<Packet(current', TRUE)>>, <<Plus, Packet(current', TRUE)>>}
      <3> DEFINE p == Packet(current + 1, TRUE)
      <3>1. Append(<< >>, p) = <<p>> /\ Append(<<Plus>>, p) = <<Plus, p>>
            BY Channels
      <3>2. toStub' = Append(toStub, p)
            BY <1>3 DEF Request
      <3> QED  BY <1>2, <2>1, <3>1, <3>2
    <2>3. Requested'
          BY <1>1, <1>2, <2>1, <2>2 DEF Requested, Outstanding, Done
    <2>4. Counts'
          BY <1>1, <1>2, <1>3, <2>1, LinkAssumption DEF Counts
    <2> QED  BY <1>2, <2>3, <2>4 DEF IInv, Phase, Promised
  <1>4. CASE ~(current < N)
    <2>1. UNCHANGED current /\ waiting' = "end" /\ toStub' = Append(toStub, EndOfFile)
          BY <1>4 DEF Request
    <2>2. toStub' \in {<<EndOfFile>>, <<Plus, EndOfFile>>}
      <3>1. /\ Append(<< >>, EndOfFile) = <<EndOfFile>>
            /\ Append(<<Plus>>, EndOfFile) = <<Plus, EndOfFile>>
            BY Channels
      <3> QED  BY <1>2, <2>1, <3>1
    <2>3. Ending' /\ Counts'
          BY <1>1, <1>2, <2>1, <2>2 DEF Ending, Counts, Done
    <2> QED  BY <1>2, <2>3 DEF IInv, Phase, Promised
  <1> QED  BY <1>3, <1>4

(* The debugger hears an acknowledgement, a refusal or an answer, and      *)
(* nothing it does not wait for.                                           *)
LEMMA HearStep ==
  IInv /\ (Acknowledged \/ AskedAgain \/ Answered \/ Ignored) => IInv' /\ Promised
  <1> SUFFICES ASSUME IInv, Acknowledged \/ AskedAgain \/ Answered \/ Ignored
               PROVE  IInv' /\ Promised
      OBVIOUS
  <1>1. /\ toDebugger # << >> /\ waiting \in {"ack", "answer"}
        /\ toDebugger' = Tail(toDebugger)
        /\ UNCHANGED <<current, len, packet, executed, junk>>
        BY DEF Acknowledged, AskedAgain, Answered, Ignored, DebuggerHears, stub, faults
  <1>2. Counts /\ (Refused \/ Replied \/ Answering)
        BY <1>1 DEF IInv, Phase, Idle, Requested, Repeating, Ending
  <1>3. CASE Refused
    <2>1. Heard = Minus /\ toDebugger' = << >>
          BY <1>1, <1>3, Channels DEF Refused, Heard
    <2>2. AskedAgain
          BY <1>3, <2>1, Tokens DEF Refused, Acknowledged, Answered, Ignored
    <2>3. toStub' = <<Packet(current, TRUE)>> /\ UNCHANGED <<waiting, answered>>
          BY <1>3, <2>2, Channels DEF AskedAgain, Refused
    <2>4. Requested' /\ Counts'
          BY <1>1, <1>2, <1>3, <2>1, <2>3 DEF Refused, Requested, Outstanding, Counts
    <2> QED  BY <1>1, <2>3, <2>4 DEF IInv, Phase, Promised
  <1>4. CASE Replied
    <2>1. PICK sound \in BOOLEAN : toDebugger = <<Plus, Packet(current, sound)>>
          BY <1>4 DEF Replied
    <2>2. Heard = Plus /\ toDebugger' = <<Packet(current, sound)>>
          BY <1>1, <2>1, Channels DEF Heard
    <2>3. Acknowledged
          BY <1>4, <2>2, Tokens DEF Replied, AskedAgain, Answered, Ignored
    <2>4. waiting' = "answer" /\ UNCHANGED <<answered, toStub>>
          BY <2>3 DEF Acknowledged
    <2>5. Answering' /\ Counts'
          BY <1>1, <1>2, <1>4, <2>2, <2>4 DEF Replied, Answering, Executing, Counts
    <2> QED  BY <1>1, <2>4, <2>5 DEF IInv, Phase, Promised
  <1>5. CASE Answering
    <2>1. PICK sound \in BOOLEAN : toDebugger = <<Packet(current, sound)>>
          BY <1>5 DEF Answering
    <2>2. Heard = Packet(current, sound) /\ toDebugger' = << >>
          BY <1>1, <2>1, Channels DEF Heard
    <2>3. Answered /\ Heard.sound = sound
          BY <1>5, <2>2, Tokens DEF Answering, Acknowledged, AskedAgain, Ignored
    <2>4. CASE sound
      <3>1. /\ waiting' = "nothing" /\ toStub' = <<Plus>>
            /\ answered' = Append(answered, current)
        <4>1. waiting' = "nothing" /\ toStub' = <<Plus>> /\ answered' = Append(answered, Heard.id)
              BY <1>5, <2>3, <2>4, Channels DEF Answered, Answering
        <4>2. Heard.id = current
              BY <2>2, Tokens
        <4> QED  BY <4>1, <4>2
      <3>2. answered' \in Seq(Nat) /\ Len(answered') = Len(answered) + 1
        <4>1. current \in Nat /\ answered \in Seq(Nat)
              BY <1>2, LinkAssumption DEF Counts
        <4> QED  BY <3>1, <4>1, AppendProperties
      <3>3. Idle' /\ Counts'
            BY <1>1, <1>2, <1>5, <2>2, <3>1, <3>2 DEF Answering, Executing, Idle, Done, Counts
      <3>4. Abstract!Answer
            BY <1>1, <1>5, <3>1 DEF Abstract!Answer, Answering, Executing
      <3> QED  BY <3>3, <3>4 DEF IInv, Phase, Promised, Abstract!Next
    <2>5. CASE ~sound
      <3>1. toStub' = <<Minus>> /\ UNCHANGED <<waiting, answered>>
            BY <1>5, <2>3, <2>5, Channels DEF Answered, Answering
      <3>2. Repeating' /\ Counts'
            BY <1>1, <1>2, <1>5, <2>2, <3>1 DEF Answering, Executing, Repeating, Counts
      <3> QED  BY <1>1, <3>1, <3>2 DEF IInv, Phase, Promised
    <2> QED  BY <2>4, <2>5
  <1> QED  BY <1>2, <1>3, <1>4, <1>5

(* The scanner meets no junk: what it reads, it answers.                   *)
LEMMA ScannerStep == IInv /\ Scanner => IInv' /\ Promised
  <1> SUFFICES ASSUME IInv, Scanner PROVE IInv' /\ Promised
      OBVIOUS
  <1>1. /\ toStub # << >> /\ toStub' = Tail(toStub)
        /\ UNCHANGED <<current, waiting, answered, junk>>
        BY DEF Scanner, ReadAck, ReadRefusal, ReadPacket, ReadJunk, ReadEndOfFile,
                              ScannerReads,
               debugger, faults
  <1>2. Counts /\ handle_error(toDebugger) = toDebugger
        BY DEF IInv, Counts, handle_error
  <1>3. Idle \/ Requested \/ Repeating \/ Ending
        BY <1>1 DEF IInv, Phase, Refused, Replied, Answering
  <1>4. ASSUME Said = Plus
        PROVE  /\ UNCHANGED <<toDebugger, len, packet, executed>>
    <2>1. ReadAck
          BY <1>4, Tokens DEF Scanner, ReadRefusal, ReadPacket, ReadJunk, ReadEndOfFile,
                              ScannerReads
    <2> QED  BY <2>1, <1>2 DEF ReadAck, Counts
  <1>5. CASE Idle
    <2>1. toStub = <<Plus>> /\ Said = Plus /\ toStub' = << >>
          BY <1>1, <1>5, Channels DEF Idle, Said
    <2>2. Idle' /\ Counts'
          BY <1>1, <1>2, <1>4, <1>5, <2>1 DEF Idle, Done, Counts
    <2> QED  BY <1>1, <1>4, <2>1, <2>2 DEF IInv, Phase, Promised
  <1>6. CASE Requested
    <2>1. PICK sound \in BOOLEAN :
            toStub \in {<<Packet(current, sound)>>, <<Plus, Packet(current, sound)>>}
          BY <1>6 DEF Requested
    <2>2. CASE toStub = <<Plus, Packet(current, sound)>>
      <3>1. Said = Plus /\ toStub' = <<Packet(current, sound)>>
            BY <1>1, <2>2, Channels DEF Said
      <3>2. Requested' /\ Counts'
            BY <1>1, <1>2, <1>4, <1>6, <3>1 DEF Requested, Outstanding, Counts
      <3> QED  BY <1>1, <1>4, <3>1, <3>2 DEF IInv, Phase, Promised
    <2>3. CASE toStub = <<Packet(current, sound)>>
      <3>1. Said = Packet(current, sound) /\ toStub' = << >>
            BY <1>1, <2>3, Channels DEF Said
      <3>2. Said.token = "packet" /\ Said.id = current /\ Said.sound = sound
            BY <3>1, Tokens
      <3>3. ReadPacket
            BY <3>2 DEF Scanner, ReadAck, ReadRefusal, ReadJunk, ReadEndOfFile,
                              ScannerReads
      <3>4. /\ current # 0 /\ current = Len(answered) + 1 /\ Len(executed) = Len(answered)
            /\ Len(answered) \in Nat /\ toDebugger = << >>
            BY <1>2, <1>6 DEF Requested, Outstanding, Counts
      <3>5. CASE sound
        <4>1. /\ toDebugger' = Append(Append(<< >>, Plus), Packet(current, TRUE))
              /\ packet' = current /\ executed' = Append(executed, current) /\ len' = 0
              BY <1>2, <3>2, <3>3, <3>4, <3>5 DEF ReadPacket, gdb_transmit_packet, Executed
        <4>2. toDebugger' = <<Plus, Packet(current, TRUE)>>
              BY <4>1, Channels
        <4>3. Len(executed') = current /\ executed' \in Seq(Nat)
              BY <1>2, <3>4, <4>1 DEF Counts
        <4>4. Replied' /\ Counts'
              BY <1>1, <1>2, <1>6, <3>1, <3>4, <4>1, <4>2, <4>3
              DEF Requested, Replied, Executing, Counts
        <4>5. Abstract!Execute
              BY <1>1, <1>2, <3>4, <4>1, LinkAssumption DEF Abstract!Execute, Counts
        <4> QED  BY <4>4, <4>5 DEF IInv, Phase, Promised, Abstract!Next
      <3>6. CASE ~sound
        <4>1. /\ toDebugger' = Append(<< >>, Minus)
              /\ UNCHANGED <<packet, executed>> /\ len' = 0
              BY <1>2, <3>2, <3>3, <3>4, <3>6
              DEF ReadPacket, gdb_require_retransmission, Executed
        <4>2. toDebugger' = <<Minus>>
              BY <4>1, Channels
        <4>3. Refused' /\ Counts'
              BY <1>1, <1>2, <1>6, <3>1, <4>1, <4>2 DEF Requested, Refused, Outstanding, Counts
        <4> QED  BY <1>1, <4>1, <4>3 DEF IInv, Phase, Promised
      <3> QED  BY <3>5, <3>6
    <2> QED  BY <2>1, <2>2, <2>3
  <1>7. CASE Repeating
    <2>1. Said = Minus /\ toStub' = << >>
          BY <1>1, <1>7, Channels DEF Repeating, Said
    <2>2. ReadRefusal
          BY <2>1, Tokens DEF Scanner, ReadAck, ReadPacket, ReadJunk, ReadEndOfFile,
                              ScannerReads
    <2>3. packet = current /\ current # 0 /\ toDebugger = << >>
          BY <1>2, <1>7 DEF Repeating, Executing, Counts
    <2>4. /\ toDebugger' = Append(<< >>, Packet(current, TRUE))
          /\ UNCHANGED <<packet, executed>> /\ len' = 0
          BY <1>2, <2>2, <2>3 DEF ReadRefusal, gdb_transmit_packet
    <2>5. toDebugger' = <<Packet(current, TRUE)>>
          BY <2>4, Channels
    <2>6. Answering' /\ Counts'
          BY <1>1, <1>2, <1>7, <2>1, <2>4, <2>5 DEF Repeating, Answering, Executing, Counts
    <2> QED  BY <1>1, <2>4, <2>6 DEF IInv, Phase, Promised
  <1>8. CASE Ending
    <2>1. \/ Said = Plus /\ toStub' \in {<< >>, <<EndOfFile>>}
          \/ Said = EndOfFile /\ toStub' = << >>
      <3>1. CASE toStub = <<Plus>>
            BY <1>1, <3>1, Channels DEF Said
      <3>2. CASE toStub = <<EndOfFile>>
            BY <1>1, <3>2, Channels DEF Said
      <3>3. CASE toStub = <<Plus, EndOfFile>>
            BY <1>1, <3>3, Channels DEF Said
      <3> QED  BY <1>1, <1>8, <3>1, <3>2, <3>3 DEF Ending
    <2>2. UNCHANGED <<toDebugger, packet, executed>> /\ len' = 0
      <3>1. CASE Said = Plus
            BY <1>2, <1>4, <3>1 DEF Counts
      <3>2. CASE Said = EndOfFile
        <4>1. ReadEndOfFile
              BY <3>2, Tokens DEF Scanner, ReadAck, ReadRefusal, ReadPacket, ReadJunk, ScannerReads
        <4> QED  BY <4>1, <1>2 DEF ReadEndOfFile
      <3> QED  BY <2>1, <3>1, <3>2
    <2>3. Ending' /\ Counts'
          BY <1>1, <1>2, <1>8, <2>1, <2>2 DEF Ending, Done, Counts
    <2> QED  BY <1>1, <2>2, <2>3 DEF IInv, Phase, Promised
  <1> QED  BY <1>3, <1>5, <1>6, <1>7, <1>8

(* A packet damaged on the way leaves the phase as it is.                  *)
LEMMA DamageStep == IInv /\ Damage => IInv' /\ Promised
  <1> SUFFICES ASSUME IInv, Damage PROVE IInv' /\ Promised
      OBVIOUS
  <1>1. UNCHANGED <<current, waiting, answered, len, packet, executed, junk>>
        BY DEF Damage, debugger, stub
  <1>2. Counts /\ Counts' /\ Promised
        BY <1>1 DEF IInv, Counts, Promised
  <1>3. CASE \E i \in DOMAIN toStub : /\ toStub[i].token = "packet"
                                       /\ toStub' = DamagedAt(toStub, i)
                                       /\ UNCHANGED toDebugger
    <2>1. PICK i \in DOMAIN toStub : /\ toStub[i].token = "packet"
                                    /\ toStub' = DamagedAt(toStub, i)
                                    /\ UNCHANGED toDebugger
          BY <1>3
    <2>2. Requested
          BY <2>1, Tokens DEF IInv, Phase, Idle, Refused, Replied, Answering, Repeating, Ending
    <2>3. PICK sound \in BOOLEAN :
            toStub \in {<<Packet(current, sound)>>, <<Plus, Packet(current, sound)>>}
          BY <2>2 DEF Requested
    <2>4. CASE toStub = <<Packet(current, sound)>>
          BY <1>1, <1>2, <2>1, <2>2, <2>4, Damaged DEF Requested, Outstanding, IInv, Phase
    <2>5. CASE toStub = <<Plus, Packet(current, sound)>>
      <3>1. i # 1
            BY <2>1, <2>5, Tokens
      <3> QED  BY <1>1, <1>2, <2>1, <2>2, <2>5, <3>1, Damaged DEF Requested, Outstanding, IInv, Phase
    <2> QED  BY <2>3, <2>4, <2>5
  <1>4. CASE \E i \in DOMAIN toDebugger : /\ toDebugger[i].token = "packet"
                                           /\ toDebugger' = DamagedAt(toDebugger, i)
                                           /\ UNCHANGED toStub
    <2>1. PICK i \in DOMAIN toDebugger : /\ toDebugger[i].token = "packet"
                                        /\ toDebugger' = DamagedAt(toDebugger, i)
                                        /\ UNCHANGED toStub
          BY <1>4
    <2>2. Replied \/ Answering
          BY <2>1, Tokens DEF IInv, Phase, Idle, Requested, Refused, Repeating, Ending
    <2>3. CASE Answering
      <3>1. PICK sound \in BOOLEAN : toDebugger = <<Packet(current, sound)>>
            BY <2>3 DEF Answering
      <3> QED  BY <1>1, <1>2, <2>1, <2>3, <3>1, Damaged DEF Answering, Executing, IInv, Phase
    <2>4. CASE Replied
      <3>1. PICK sound \in BOOLEAN : toDebugger = <<Plus, Packet(current, sound)>>
            BY <2>4 DEF Replied
      <3>2. i # 1
            BY <2>1, <3>1, Tokens
      <3> QED  BY <1>1, <1>2, <2>1, <2>4, <3>1, <3>2, Damaged DEF Replied, Executing, IInv, Phase
    <2> QED  BY <2>2, <2>3, <2>4
  <1> QED  BY <1>3, <1>4 DEF Damage

(* As long as no junk is sent, a step keeps the phases.                    *)
LEMMA PhaseStep == IInv /\ [Next]_vars /\ junk' = 0 => IInv' /\ Promised
  <1> SUFFICES ASSUME IInv, [Next]_vars, junk' = 0 PROVE IInv' /\ Promised
      OBVIOUS
  <1>1. ~JunkByte
        BY DEF JunkByte, IInv, Counts
  <1>2. CASE UNCHANGED vars
        BY <1>2 DEF vars, debugger, stub, faults, IInv, Counts, Phase, Idle, Requested, Refused,
                    Replied, Answering, Repeating, Ending, Done, Outstanding, Executing, Promised
  <1> QED  BY <1>1, <1>2, RequestStep, HearStep, ScannerStep, DamageStep DEF Next, Debugger

(* The phases are those of a session that has met no junk yet.             *)
QuietInv == junk \in Nat /\ (junk = 0 => IInv)

(* Junk is counted and never forgotten.                                    *)
LEMMA JunkGrows == [Next]_vars => junk' \in {junk, junk + 1}
  <1>1. CASE JunkByte
        BY <1>1 DEF JunkByte
  <1>2. CASE Debugger \/ Scanner \/ Damage \/ UNCHANGED vars
        BY <1>2 DEF Debugger, Request, Acknowledged, AskedAgain, Answered, Ignored,
                    DebuggerHears, Scanner, ReadAck, ReadRefusal, ReadPacket, ReadJunk,
                    ReadEndOfFile, ScannerReads, Damage, vars, faults
  <1> QED  BY <1>1, <1>2 DEF Next

LEMMA QuietStep == QuietInv /\ [Next]_vars => QuietInv' /\ (junk' = 0 => Promised)
  <1> SUFFICES ASSUME QuietInv, [Next]_vars PROVE QuietInv' /\ (junk' = 0 => Promised)
      OBVIOUS
  <1>1. junk' \in Nat /\ (junk' = 0 => junk = 0)
        BY JunkGrows DEF QuietInv
  <1>2. ASSUME junk' = 0 PROVE IInv' /\ Promised
        BY <1>1, <1>2, PhaseStep DEF QuietInv
  <1> QED  BY <1>1, <1>2 DEF QuietInv

(* Until junk is sent, for any number of requests and of damaged packets,  *)
(* the link implements Requests step by step: each request is executed     *)
(* once, in order, after the answer of the one before, and what is taken   *)
(* for its answer, sent for the first time or again, is its own            *)
(* (src/scanner.l lines 61-70, gdb_packet_analysis and                     *)
(* gdb_transmit_packet, src/gdb_protocol.c lines 107-128 and 472-511).     *)
(* That every request is answered in the end is for the model checker.     *)
THEOREM OncePerRequest == Spec => ImplementsRequests
  <1>1. Init => QuietInv /\ Abstract!Init
        BY LinkAssumption DEF Init, Abstract!Init, QuietInv, IInv, Counts, Phase, Idle, Done
  <1>2. QuietInv /\ [Next]_vars
          => QuietInv' /\ (junk' = 0 => Abstract!Next \/ UNCHANGED <<executed, answered>>)
        BY QuietStep DEF Promised
  <1> QED  BY <1>1, <1>2, PTL DEF Spec, ImplementsRequests

-----------------------------------------------------------------------------
(* The servers.  What the sockets' variables hold; and, of each client,    *)
(* its bytes are raised, then the one the thread holds, then those on the  *)
(* wire, and nothing else has been written.                                *)
SocketsType == /\ connection \in Clients /\ irq \in {"socket", "accept", "read", "raise"}
               /\ backlog \in Seq(Clients)
               /\ client \in [Clients -> {"new", "open", "closed"}]
               /\ written \in [Clients -> Nat]
               /\ \A c \in Clients : written[c] <= Len(Message[c])
               /\ wire \in [Clients -> Seq(1 .. 7)]
               /\ raised \in Seq(Clients \X (1 .. 7))

Held(c) == IF irq = "raise" /\ connection = c THEN 1 ELSE 0

TakenFrom(c) == Cardinality(RaisedFor(c)) + Held(c)

WireInv == /\ \A c \in Clients :
                 /\ TakenFrom(c) + Len(wire[c]) = written[c]
                 /\ \A i \in 1 .. Len(wire[c]) : wire[c][i] = Message[c][TakenFrom(c) + i]
           /\ \A c \in Clients :
                 irq = "raise" /\ connection = c => irqByte = Message[c][TakenFrom(c)]

(* One client is served at a time, and none twice: a client that waits has *)
(* had nothing raised and has connected, once, and the exceptions of the   *)
(* one that is served are the last.                                        *)
Serving == irq \in {"read", "raise"}

TurnInv == /\ \A c \in Clients : \A i \in DOMAIN backlog :
                 backlog[i] = c => client[c] # "new" /\ RaisedFor(c) = {}
           /\ \A i, j \in DOMAIN backlog : backlog[i] = backlog[j] => i = j
           /\ \A c \in Clients : client[c] = "new" => written[c] = 0
           /\ Serving => /\ client[connection] # "new"
                         /\ \A i \in DOMAIN backlog : backlog[i] # connection
                         /\ \A i, j \in DOMAIN raised :
                               i < j /\ raised[i][1] = connection => raised[j][1] = connection

SocketsInv == SocketsType /\ WireInv /\ TurnInv /\ RaisedInOrder

(* The places of a client's exceptions are finitely many.                  *)
LEMMA RaisedIsFinite ==
  ASSUME raised \in Seq(Clients \X (1 .. 7)), NEW c
  PROVE  /\ IsFiniteSet(RaisedFor(c)) /\ Cardinality(RaisedFor(c)) \in Nat
         /\ Cardinality(RaisedFor(c)) = 0 => RaisedFor(c) = {}
<1>1. DOMAIN raised = 1 .. Len(raised) /\ Len(raised) \in Nat
  OBVIOUS
<1>2. IsFiniteSet(1 .. Len(raised))
  BY <1>1, FS_Interval
<1>3. RaisedFor(c) \subseteq 1 .. Len(raised)
  BY <1>1 DEF RaisedFor
<1>4. IsFiniteSet(RaisedFor(c))
  BY <1>2, <1>3, FS_Subset
<1>5. QED BY <1>4, FS_CardinalityType, FS_EmptySet

(* What the counts are.                                                    *)
LEMMA TakenType ==
  ASSUME SocketsType, NEW c \in Clients
  PROVE  /\ Cardinality(RaisedFor(c)) \in Nat /\ Held(c) \in {0, 1} /\ TakenFrom(c) \in Nat
         /\ Len(wire[c]) \in Nat
<1>1. Cardinality(RaisedFor(c)) \in Nat
  BY RaisedIsFinite DEF SocketsType
<1>2. Held(c) \in {0, 1}
  BY DEF Held
<1>3. wire[c] \in Seq(1 .. 7)
  BY DEF SocketsType
<1>4. Len(wire[c]) \in Nat
  BY <1>3
<1>5. QED BY <1>1, <1>2, <1>4 DEF TakenFrom

(* Two states that differ in neither the exceptions nor what is written    *)
(* place every exception alike.                                            *)
LEMMA SamePlaces ==
  ASSUME UNCHANGED raised
  PROVE  /\ \A c : RaisedFor(c)' = RaisedFor(c)
         /\ \A i : Place(i)' = Place(i)
BY DEF RaisedFor, Place

(* RaisedInOrder looks at written from below.                              *)
LEMMA SameOrder ==
  ASSUME SocketsType, UNCHANGED raised, RaisedInOrder,
         \A c \in Clients : written'[c] \in Nat /\ written[c] <= written'[c]
  PROVE  RaisedInOrder'
<1>1. ASSUME NEW i \in DOMAIN raised
      PROVE  LET c == raised[i][1]
             IN  Place(i) <= written'[c] /\ raised[i][2] = Message[c][Place(i)]
  <2> DEFINE c == raised[i][1]
  <2>1. c \in Clients
    BY <1>1, ElementOfSeq DEF SocketsType
  <2>2. Place(i) <= written[c] /\ raised[i][2] = Message[c][Place(i)]
    BY <1>1 DEF RaisedInOrder
  <2>3. Place(i) \in Nat
    <3>1. i \in Nat
      BY DEF SocketsType
    <3>2. IsFiniteSet(1 .. i) /\ {j \in 1 .. i : raised[j][1] = raised[i][1]} \subseteq 1 .. i
      BY <3>1, FS_Interval
    <3>3. QED BY <3>2, FS_Subset, FS_CardinalityType DEF Place
  <2>4. written[c] \in Nat /\ written'[c] \in Nat /\ written[c] <= written'[c]
    BY <2>1 DEF SocketsType
  <2> HIDE DEF c
  <2>5. QED BY <2>2, <2>3, <2>4 DEF c
<1>2. QED BY <1>1, SamePlaces DEF RaisedInOrder

(* A step that raises nothing, reads nothing and accepts no one.           *)
LEMMA IdleStep ==
  ASSUME SocketsInv, UNCHANGED <<connection, backlog, written, wire, irqByte, raised>>,
         client' \in [Clients -> {"new", "open", "closed"}],
         \A c \in Clients : client'[c] = "new" <=> client[c] = "new",
         irq' = irq \/ (irq # "raise" /\ irq' = "accept")
  PROVE  SocketsInv'
<1> USE DEF SocketsInv
<1>1. SocketsType'
  BY DEF SocketsType
<1>2. \A c : RaisedFor(c)' = RaisedFor(c) /\ Held(c)' = Held(c)
  BY SamePlaces DEF Held
<1>3. \A c : TakenFrom(c)' = TakenFrom(c)
  BY <1>2 DEF TakenFrom
<1>4. WireInv'
  BY <1>3 DEF WireInv
<1>5. TurnInv'
  <2>1. \A i \in DOMAIN backlog : backlog[i] \in Clients
    BY ElementOfSeq DEF SocketsType
  <2>2. QED BY <1>2, <2>1 DEF TurnInv, SocketsType, Serving
<1>6. RaisedInOrder'
  BY SameOrder DEF SocketsType
<1>7. QED BY <1>1, <1>4, <1>5, <1>6

(* A client connects: it has written nothing, so nothing of it was raised. *)
LEMMA ConnectStep ==
  ASSUME SocketsInv, NEW c \in Clients, Connect(c)
  PROVE  SocketsInv'
<1> USE DEF SocketsInv
<1>0. /\ UNCHANGED <<written, wire, raised, irq, connection, irqByte>>
      /\ client[c] = "new" /\ client' = [client EXCEPT ![c] = "open"]
      /\ backlog' = Append(backlog, c)
  BY DEF Connect, server
<1>1. SocketsType'
  BY <1>0 DEF SocketsType
<1>2. \A d : RaisedFor(d)' = RaisedFor(d) /\ Held(d)' = Held(d)
  BY <1>0, SamePlaces DEF Held
<1>3. \A d : TakenFrom(d)' = TakenFrom(d)
  BY <1>2 DEF TakenFrom
<1>4. WireInv'
  BY <1>0, <1>3 DEF WireInv
<1>5. RaisedFor(c) = {}
  <2>1. TakenFrom(c) + Len(wire[c]) = 0
    BY <1>0 DEF WireInv, TurnInv
  <2>2. Len(wire[c]) \in Nat /\ Held(c) \in Nat /\ Cardinality(RaisedFor(c)) \in Nat
    BY TakenType
  <2>3. Cardinality(RaisedFor(c)) = 0
    BY <2>1, <2>2 DEF TakenFrom
  <2>4. QED BY <2>3, RaisedIsFinite DEF SocketsType
<1>6. TurnInv'
  <2>1. /\ DOMAIN backlog = 1 .. Len(backlog) /\ Len(backlog) \in Nat
        /\ \A i \in DOMAIN backlog : backlog[i] \in Clients /\ backlog[i] # c
    BY <1>0, ElementOfSeq DEF SocketsType, TurnInv
  <2>2. /\ DOMAIN backlog' = 1 .. Len(backlog) + 1 /\ backlog'[Len(backlog) + 1] = c
        /\ \A i \in 1 .. Len(backlog) : backlog'[i] = backlog[i]
    BY <1>0, <2>1, AppendProperties DEF SocketsType
  <2>3. /\ client'[c] = "open"
        /\ \A d \in Clients : d # c => client'[d] = client[d]
    BY <1>0 DEF SocketsType
  <2>4. \A d \in Clients : \A i \in DOMAIN backlog' :
           backlog'[i] = d => client'[d] # "new" /\ RaisedFor(d)' = {}
    BY <1>2, <1>5, <2>1, <2>2, <2>3 DEF TurnInv
  <2>5. \A i, j \in DOMAIN backlog' : backlog'[i] = backlog'[j] => i = j
    BY <2>1, <2>2 DEF TurnInv
  <2>6. \A d \in Clients : client'[d] = "new" => written'[d] = 0
    BY <1>0, <2>3 DEF TurnInv
  <2>7. Serving => connection # c /\ connection \in Clients
    BY <1>0 DEF TurnInv, SocketsType
  <2>8. Serving' => /\ client'[connection'] # "new"
                    /\ \A i \in DOMAIN backlog' : backlog'[i] # connection'
                    /\ \A i, j \in DOMAIN raised' :
                          i < j /\ raised'[i][1] = connection' => raised'[j][1] = connection'
    <3>1. Serving' = Serving
      BY <1>0 DEF Serving
    <3>2. QED BY <1>0, <2>1, <2>2, <2>3, <2>7, <3>1 DEF TurnInv
  <2>9. QED BY <2>4, <2>5, <2>6, <2>8 DEF TurnInv
<1>7. RaisedInOrder'
  BY <1>0, SameOrder DEF SocketsType
<1>8. QED BY <1>1, <1>4, <1>6, <1>7

(* A client writes: the byte is the last on the wire.                      *)
LEMMA WriteStep ==
  ASSUME SocketsInv, NEW c \in Clients, Write(c)
  PROVE  SocketsInv'
<1> USE DEF SocketsInv
<1> DEFINE k == written[c] + 1
           bytes == Append(wire[c], Message[c][k])
<1>0. /\ UNCHANGED <<raised, irq, connection, irqByte, backlog, client>>
      /\ client[c] = "open" /\ written[c] < Len(Message[c])
      /\ written' = [written EXCEPT ![c] = k] /\ wire' = [wire EXCEPT ![c] = bytes]
  BY DEF Write, server
<1>1. /\ Message[c] \in Seq(1 .. 7) /\ Len(Message[c]) \in Nat /\ written[c] \in Nat
      /\ wire[c] \in Seq(1 .. 7) /\ Len(wire[c]) \in Nat
  BY ListenersAssumption DEF SocketsType
<1>2. k \in 1 .. Len(Message[c]) /\ Message[c][k] \in 1 .. 7
  BY <1>0, <1>1, ElementOfSeq
<1>3. /\ bytes \in Seq(1 .. 7) /\ Len(bytes) = Len(wire[c]) + 1
      /\ bytes[Len(wire[c]) + 1] = Message[c][k]
      /\ \A i \in 1 .. Len(wire[c]) : bytes[i] = wire[c][i]
  BY <1>1, <1>2, AppendProperties
<1>4. /\ written' \in [Clients -> Nat] /\ written'[c] = k
      /\ \A d \in Clients : d # c => written'[d] = written[d]
      /\ wire' \in [Clients -> Seq(1 .. 7)] /\ wire'[c] = bytes
      /\ \A d \in Clients : d # c => wire'[d] = wire[d]
  BY <1>0, <1>1, <1>3 DEF SocketsType
<1>5. SocketsType'
  BY <1>0, <1>1, <1>2, <1>4 DEF SocketsType
<1>6. \A d : RaisedFor(d)' = RaisedFor(d) /\ Held(d)' = Held(d)
  BY <1>0, SamePlaces DEF Held
<1>7. \A d : TakenFrom(d)' = TakenFrom(d)
  BY <1>6 DEF TakenFrom
<1>8. TakenFrom(c) + Len(wire[c]) + 1 = k /\ TakenFrom(c) \in Nat
  <2>1. TakenFrom(c) + Len(wire[c]) = written[c]
    BY DEF WireInv
  <2>2. TakenFrom(c) \in Nat
    BY TakenType
  <2>3. QED BY <1>1, <2>1, <2>2
<1> HIDE DEF bytes, k
<1>9. \A i \in 1 .. Len(bytes) : bytes[i] = Message[c][TakenFrom(c) + i]
  <2>1. \A i \in 1 .. Len(wire[c]) : bytes[i] = Message[c][TakenFrom(c) + i]
    BY <1>3 DEF WireInv
  <2>2. bytes[Len(wire[c]) + 1] = Message[c][TakenFrom(c) + (Len(wire[c]) + 1)]
    <3>1. TakenFrom(c) + (Len(wire[c]) + 1) = k
      BY <1>1, <1>8
    <3>2. QED BY <1>3, <3>1
  <2>3. QED BY <1>1, <1>3, <2>1, <2>2
<1>10. WireInv'
  <2>1. TakenFrom(c) + Len(bytes) = k
    BY <1>1, <1>3, <1>8
  <2>2. \A d \in Clients : /\ TakenFrom(d)' + Len(wire'[d]) = written'[d]
                           /\ \A i \in 1 .. Len(wire'[d]) :
                                 wire'[d][i] = Message[d][TakenFrom(d)' + i]
    <3>1. ASSUME NEW d \in Clients, d # c
          PROVE  /\ TakenFrom(d)' + Len(wire'[d]) = written'[d]
                 /\ \A i \in 1 .. Len(wire'[d]) : wire'[d][i] = Message[d][TakenFrom(d)' + i]
      <4>1. wire'[d] = wire[d] /\ written'[d] = written[d] /\ TakenFrom(d)' = TakenFrom(d)
        BY <1>4, <1>7, <3>1
      <4>2. QED BY <4>1 DEF WireInv
    <3>2. /\ TakenFrom(c)' + Len(wire'[c]) = written'[c]
          /\ \A i \in 1 .. Len(wire'[c]) : wire'[c][i] = Message[c][TakenFrom(c)' + i]
      <4>1. wire'[c] = bytes /\ written'[c] = k /\ TakenFrom(c)' = TakenFrom(c)
        BY <1>4, <1>7
      <4>2. QED BY <1>9, <2>1, <4>1
    <3>3. QED BY <3>1, <3>2
  <2>3. \A d \in Clients : irq' = "raise" /\ connection' = d => irqByte' = Message[d][TakenFrom(d)']
    BY <1>0, <1>7 DEF WireInv
  <2>4. QED BY <2>2, <2>3 DEF WireInv
<1>11. TurnInv'
  BY <1>0, <1>4, <1>6 DEF TurnInv, Serving
<1>12. RaisedInOrder'
  <2>1. k \in Nat /\ written[c] <= k
    BY <1>1 DEF k
  <2>2. QED BY <1>0, <1>4, <2>1, SameOrder DEF SocketsType
<1>13. QED BY <1>5, <1>10, <1>11, <1>12

(* The thread turns to the next client: nothing of it has been raised.     *)
LEMMA AcceptStep ==
  ASSUME SocketsInv, irq = "accept", irq' = "read", backlog # << >>,
         connection' = Head(backlog), backlog' = Tail(backlog),
         UNCHANGED <<irqByte, client, written, wire, raised>>
  PROVE  SocketsInv'
<1> USE DEF SocketsInv
<1> DEFINE n == Len(backlog)
<1>0. /\ n \in Nat /\ n > 0 /\ DOMAIN backlog = 1 .. n
      /\ backlog[1] = connection' /\ connection' \in Clients
      /\ backlog' \in Seq(Clients) /\ DOMAIN backlog' = 1 .. n - 1
      /\ \A i \in 1 .. n - 1 : backlog'[i] = backlog[i + 1]
  <2>1. backlog \in Seq(Clients)
    BY DEF SocketsType
  <2>2. n \in Nat /\ n > 0 /\ DOMAIN backlog = 1 .. n
    BY <2>1, EmptySeq
  <2>3. Tail(backlog) \in Seq(Clients) /\ Len(Tail(backlog)) = n - 1
        /\ \A i \in 1 .. Len(Tail(backlog)) : Tail(backlog)[i] = backlog[i + 1]
    BY <2>1, HeadTailProperties
  <2>4. Head(backlog) = backlog[1] /\ Head(backlog) \in Clients
    BY <2>1, HeadTailProperties
  <2>5. QED BY <2>2, <2>3, <2>4
<1>1. SocketsType'
  BY <1>0 DEF SocketsType
<1>2. \A c : RaisedFor(c)' = RaisedFor(c) /\ Held(c)' = Held(c)
  BY SamePlaces DEF Held
<1>3. \A c : TakenFrom(c)' = TakenFrom(c)
  BY <1>2 DEF TakenFrom
<1>4. WireInv'
  BY <1>3 DEF WireInv
<1>5. /\ client[backlog[1]] # "new" /\ RaisedFor(backlog[1]) = {}
      /\ \A i \in 2 .. n : backlog[i] # backlog[1]
  BY <1>0 DEF TurnInv
<1> HIDE DEF n
<1>6. TurnInv'
  <2>1. \A d \in Clients : \A i \in DOMAIN backlog' :
           backlog'[i] = d => client'[d] # "new" /\ RaisedFor(d)' = {}
    BY <1>0, <1>2 DEF TurnInv
  <2>2. \A i, j \in DOMAIN backlog' : backlog'[i] = backlog'[j] => i = j
    <3>1. ASSUME NEW i \in 1 .. n - 1, NEW j \in 1 .. n - 1, backlog'[i] = backlog'[j]
          PROVE  i = j
      <4>1. backlog[i + 1] = backlog[j + 1] /\ i + 1 \in 1 .. n /\ j + 1 \in 1 .. n
        BY <1>0, <3>1
      <4>2. i + 1 = j + 1
        BY <1>0, <4>1 DEF TurnInv
      <4>3. QED BY <4>2
    <3>2. QED BY <1>0, <3>1
  <2>3. \A c \in Clients : client'[c] = "new" => written'[c] = 0
    BY DEF TurnInv
  <2>4. \A i \in DOMAIN backlog' : backlog'[i] # connection'
    BY <1>0, <1>5
  <2>5. \A i \in DOMAIN raised' : raised'[i][1] # connection'
    BY <1>0, <1>5 DEF RaisedFor
  <2>6. client'[connection'] # "new"
    BY <1>0, <1>5
  <2>7. QED BY <2>1, <2>2, <2>3, <2>4, <2>5, <2>6 DEF TurnInv
<1>7. RaisedInOrder'
  BY SameOrder DEF SocketsType
<1>8. QED BY <1>1, <1>4, <1>6, <1>7

(* The thread reads the byte that was written first.                       *)
LEMMA ReadStep ==
  ASSUME SocketsInv, IrqReads
  PROVE  SocketsInv'
<1> USE DEF SocketsInv
<1> PICK c \in Clients : c = connection
  BY DEF SocketsType
<1>0. /\ UNCHANGED <<raised, connection, backlog, client, written>>
      /\ irq = "read" /\ irq' = "raise" /\ wire[c] # << >>
      /\ irqByte' = Head(wire[c]) /\ wire' = [wire EXCEPT ![c] = Tail(wire[c])]
  BY DEF IrqReads, Pending, NextByte
<1>1. /\ c \in Clients /\ wire[c] \in Seq(1 .. 7) /\ Len(wire[c]) \in Nat /\ Len(wire[c]) > 0
  BY <1>0, EmptySeq DEF SocketsType
<1>2. /\ Tail(wire[c]) \in Seq(1 .. 7) /\ Len(Tail(wire[c])) = Len(wire[c]) - 1
      /\ \A i \in 1 .. Len(wire[c]) - 1 : Tail(wire[c])[i] = wire[c][i + 1]
      /\ Head(wire[c]) = wire[c][1]
  BY <1>0, <1>1, HeadTailProperties
<1>3. /\ wire' \in [Clients -> Seq(1 .. 7)] /\ wire'[c] = Tail(wire[c])
      /\ \A d \in Clients : d # c => wire'[d] = wire[d]
  BY <1>0, <1>1, <1>2 DEF SocketsType
<1>4. SocketsType'
  BY <1>0, <1>3 DEF SocketsType
<1>5. \A d : RaisedFor(d)' = RaisedFor(d)
  BY <1>0, SamePlaces
<1>6. /\ TakenFrom(c) \in Nat /\ TakenFrom(c)' = TakenFrom(c) + 1
      /\ \A d \in Clients : d # c => TakenFrom(d)' = TakenFrom(d)
  <2>1. /\ Held(c) = 0 /\ Held(c)' = 1
        /\ \A d \in Clients : d # c => Held(d) = 0 /\ Held(d)' = 0
    BY <1>0 DEF Held
  <2>2. Cardinality(RaisedFor(c)) \in Nat
    BY TakenType
  <2>3. QED BY <1>5, <2>1, <2>2 DEF TakenFrom
<1>7. wire[c][1] = Message[c][TakenFrom(c) + 1]
  BY <1>1 DEF WireInv
<1>8. \A i \in 1 .. Len(wire[c]) - 1 : Tail(wire[c])[i] = Message[c][TakenFrom(c)' + i]
  <2>1. \A i \in 1 .. Len(wire[c]) - 1 : wire[c][i + 1] = Message[c][TakenFrom(c) + (i + 1)]
    BY <1>1 DEF WireInv
  <2>2. \A i \in 1 .. Len(wire[c]) - 1 : TakenFrom(c)' + i = TakenFrom(c) + (i + 1)
    BY <1>6
  <2>3. QED BY <1>2, <2>1, <2>2
<1>9. WireInv'
  <2>1. TakenFrom(c)' + (Len(wire[c]) - 1) = written[c]
    BY <1>1, <1>6 DEF WireInv
  <2>2. \A d \in Clients : /\ TakenFrom(d)' + Len(wire'[d]) = written'[d]
                           /\ \A i \in 1 .. Len(wire'[d]) :
                                 wire'[d][i] = Message[d][TakenFrom(d)' + i]
    BY <1>0, <1>2, <1>3, <1>6, <1>8, <2>1 DEF WireInv
  <2>3. irqByte' = Message[c][TakenFrom(c)']
    BY <1>0, <1>2, <1>6, <1>7
  <2>4. connection' = c
    BY <1>0
  <2>5. QED BY <2>2, <2>3, <2>4 DEF WireInv
<1>10. TurnInv'
  BY <1>0, <1>5 DEF TurnInv, Serving
<1>11. RaisedInOrder'
  BY <1>0, SameOrder DEF SocketsType
<1>12. QED BY <1>4, <1>9, <1>10, <1>11

(* One exception more, of the client served: its place is the next one.    *)
LEMMA OneMore ==
  ASSUME raised \in Seq(Clients \X (1 .. 7)), NEW c \in Clients, NEW b \in 1 .. 7,
         raised' = Append(raised, <<c, b>>), NEW n \in Nat, n = Len(raised)
  PROVE  /\ raised' \in Seq(Clients \X (1 .. 7))
         /\ DOMAIN raised = 1 .. n
         /\ DOMAIN raised' = 1 .. n + 1
         /\ \A i \in 1 .. n : raised'[i] = raised[i] /\ Place(i)' = Place(i)
         /\ raised'[n + 1] = <<c, b>>
         /\ Place(n + 1)' = Cardinality(RaisedFor(c)) + 1
         /\ Cardinality(RaisedFor(c)') = Cardinality(RaisedFor(c)) + 1
         /\ \A d : d # c => RaisedFor(d)' = RaisedFor(d)
<1> DEFINE x == <<c, b>>
<1>1. /\ raised' \in Seq(Clients \X (1 .. 7)) /\ DOMAIN raised = 1 .. n /\ n \in Nat
      /\ DOMAIN raised' = 1 .. n + 1 /\ raised'[n + 1] = x
      /\ \A i \in 1 .. n : raised'[i] = raised[i]
  <2>1. x \in Clients \X (1 .. 7)
    OBVIOUS
  <2>2. /\ Append(raised, x) \in Seq(Clients \X (1 .. 7)) /\ Len(Append(raised, x)) = n + 1
        /\ \A i \in 1 .. n : Append(raised, x)[i] = raised[i]
        /\ Append(raised, x)[n + 1] = x
    BY <2>1, AppendProperties
  <2>3. DOMAIN Append(raised, x) = 1 .. n + 1 /\ DOMAIN raised = 1 .. n /\ n \in Nat
    BY <2>1, <2>2
  <2>4. raised' = Append(raised, x)
    OBVIOUS
  <2> HIDE DEF x
  <2>5. QED BY <2>2, <2>3, <2>4
<1>2. x[1] = c
  OBVIOUS
<1> HIDE DEF x
<1>3. RaisedFor(c)' = RaisedFor(c) \cup {n + 1} /\ n + 1 \notin RaisedFor(c)
  BY <1>1, <1>2 DEF RaisedFor
<1>4. \A d : d # c => RaisedFor(d)' = RaisedFor(d)
  BY <1>1, <1>2 DEF RaisedFor
<1>5. IsFiniteSet(RaisedFor(c))
  BY RaisedIsFinite
<1>6. Cardinality(RaisedFor(c)') = Cardinality(RaisedFor(c)) + 1
  BY <1>3, <1>5, FS_AddElement
<1>7. ASSUME NEW i \in 1 .. n PROVE Place(i)' = Place(i)
  <2>1. \A j \in 1 .. i : raised'[j] = raised[j] /\ i \in 1 .. i
    BY <1>1
  <2>2. {j \in 1 .. i : raised'[j][1] = raised'[i][1]}
          = {j \in 1 .. i : raised[j][1] = raised[i][1]}
    BY <2>1
  <2>3. QED BY <2>2 DEF Place
<1>8. Place(n + 1)' = Cardinality(RaisedFor(c)) + 1
  <2>1. RaisedFor(c)' = {j \in 1 .. n + 1 : raised'[j][1] = raised'[n + 1][1]}
    BY <1>1, <1>2 DEF RaisedFor
  <2>2. Place(n + 1)' = Cardinality({j \in 1 .. n + 1 : raised'[j][1] = raised'[n + 1][1]})
    BY DEF Place
  <2>3. Place(n + 1)' = Cardinality(RaisedFor(c)')
    BY <2>1, <2>2
  <2>4. QED BY <1>6, <2>3
<1>9. QED BY <1>1, <1>4, <1>6, <1>7, <1>8 DEF x

(* The thread raises the byte it holds.                                    *)
LEMMA RaiseStep ==
  ASSUME SocketsInv, Raise
  PROVE  SocketsInv'
<1> USE DEF SocketsInv
<1> PICK c \in Clients : c = connection
  BY DEF SocketsType
<1> PICK n \in Nat : n = Len(raised)
  BY DEF SocketsType
<1> DEFINE k == Cardinality(RaisedFor(c)) + 1
<1>0. /\ UNCHANGED <<connection, irqByte, backlog, client, written, wire>>
      /\ irq = "raise" /\ irq' = "read" /\ raised' = Append(raised, <<c, irqByte>>)
  BY DEF Raise, clients
<1>1. /\ c \in Clients /\ raised \in Seq(Clients \X (1 .. 7)) /\ Len(wire[c]) \in Nat
      /\ Cardinality(RaisedFor(c)) \in Nat
  BY TakenType DEF SocketsType
<1>2. TakenFrom(c) = k /\ k \in Nat /\ k <= written[c] /\ written[c] <= Len(Message[c])
  <2>1. Held(c) = 1
    BY <1>0 DEF Held
  <2>2. TakenFrom(c) = k
    BY <2>1 DEF TakenFrom
  <2>3. TakenFrom(c) + Len(wire[c]) = written[c] /\ written[c] <= Len(Message[c])
    BY <1>1 DEF WireInv, SocketsType
  <2>4. QED BY <1>1, <2>2, <2>3
<1>3. irqByte = Message[c][k]
  BY <1>0, <1>2 DEF WireInv
<1>4. irqByte \in 1 .. 7
  <2>1. Message[c] \in Seq(1 .. 7) /\ Len(Message[c]) \in Nat /\ written[c] \in Nat
    BY <1>1, ListenersAssumption DEF SocketsType
  <2>2. k \in 1 .. Len(Message[c])
    BY <1>1, <1>2, <2>1
  <2>3. QED BY <1>3, <2>1, <2>2, ElementOfSeq
<1>5. /\ raised' \in Seq(Clients \X (1 .. 7))
      /\ DOMAIN raised = 1 .. n /\ DOMAIN raised' = 1 .. n + 1
      /\ \A i \in 1 .. n : raised'[i] = raised[i] /\ Place(i)' = Place(i)
      /\ raised'[n + 1] = <<c, irqByte>> /\ Place(n + 1)' = k
      /\ Cardinality(RaisedFor(c)') = k
      /\ \A d : d # c => RaisedFor(d)' = RaisedFor(d)
  BY <1>0, <1>1, <1>4, OneMore
<1>6. raised'[n + 1][1] = c /\ raised'[n + 1][2] = irqByte
  BY <1>5
<1>7. \A d \in Clients : TakenFrom(d)' = TakenFrom(d)
  <2>1. \A d \in Clients : Held(d)' = 0 /\ (d # c => Held(d) = 0)
    BY <1>0 DEF Held
  <2>2. TakenFrom(c)' = k
    BY <1>1, <1>5, <2>1 DEF TakenFrom
  <2>3. \A d \in Clients : d # c => TakenFrom(d)' = TakenFrom(d)
    BY <1>5, <2>1 DEF TakenFrom
  <2>4. QED BY <1>2, <2>2, <2>3
<1> HIDE DEF k
<1>8. SocketsType'
  BY <1>0, <1>5 DEF SocketsType
<1>9. WireInv'
  BY <1>0, <1>7 DEF WireInv
<1>10. TurnInv'
  <2>1. \A i \in DOMAIN backlog : backlog[i] # c
    BY <1>0 DEF TurnInv, Serving
  <2>2. \A d \in Clients : \A i \in DOMAIN backlog' :
           backlog'[i] = d => client'[d] # "new" /\ RaisedFor(d)' = {}
    BY <1>0, <1>5, <2>1 DEF TurnInv
  <2>3. ASSUME NEW i \in 1 .. n + 1, NEW j \in 1 .. n + 1, i < j, raised'[i][1] = c
        PROVE  raised'[j][1] = c
    <3>1. CASE j = n + 1
      BY <1>6, <3>1
    <3>2. CASE j # n + 1
      <4>1. i \in 1 .. n /\ j \in 1 .. n
        BY <1>5, <2>3, <3>2
      <4>2. raised[i][1] = c
        BY <1>5, <2>3, <4>1
      <4>3. raised[j][1] = c
        BY <1>0, <1>5, <2>3, <4>1, <4>2 DEF TurnInv, Serving
      <4>4. QED BY <1>5, <4>1, <4>3
    <3>3. QED BY <3>1, <3>2
  <2>4. client'[connection'] # "new" /\ connection' = c
    BY <1>0 DEF TurnInv, Serving
  <2>5. \A i, j \in DOMAIN raised' :
           i < j /\ raised'[i][1] = connection' => raised'[j][1] = connection'
    BY <1>5, <2>3, <2>4
  <2>6. /\ \A i, j \in DOMAIN backlog' : backlog'[i] = backlog'[j] => i = j
        /\ \A d \in Clients : client'[d] = "new" => written'[d] = 0
        /\ \A i \in DOMAIN backlog' : backlog'[i] # connection'
    BY <1>0, <2>1 DEF TurnInv
  <2>7. QED BY <2>2, <2>4, <2>5, <2>6 DEF TurnInv
<1>11. RaisedInOrder'
  <2>1. ASSUME NEW i \in 1 .. n + 1
        PROVE  LET d == raised'[i][1]
               IN  Place(i)' <= written'[d] /\ raised'[i][2] = Message[d][Place(i)']
    <3>1. CASE i = n + 1
      <4>1. raised'[i][1] = c /\ raised'[i][2] = Message[c][k]
        BY <1>3, <1>6, <3>1
      <4>2. Place(i)' = k
        BY <1>5, <3>1
      <4>3. k <= written'[c]
        BY <1>0, <1>2
      <4>4. QED BY <4>1, <4>2, <4>3
    <3>2. CASE i # n + 1
      <4>1. i \in 1 .. n
        BY <1>5, <3>2
      <4>2. LET d == raised[i][1]
            IN  Place(i) <= written[d] /\ raised[i][2] = Message[d][Place(i)]
        BY <1>5, <4>1 DEF RaisedInOrder
      <4>3. raised'[i] = raised[i] /\ Place(i)' = Place(i) /\ written' = written
        BY <1>0, <1>5, <4>1
      <4>4. QED BY <4>2, <4>3
    <3>3. QED BY <3>1, <3>2
  <2>2. ASSUME NEW i \in 1 .. n + 1, NEW j \in 1 .. n + 1, i < j, raised'[i][1] = raised'[j][1],
               NEW l \in i .. j
        PROVE  raised'[l][1] = raised'[i][1]
    <3>1. i \in 1 .. n /\ l \in 1 .. n + 1
      BY <1>5, <2>2
    <3>2. CASE l = n + 1
      <4>1. j = n + 1
        BY <1>5, <2>2, <3>2
      <4>2. QED BY <2>2, <3>2, <4>1
    <3>3. CASE l # n + 1 /\ j = n + 1
      <4>1. l \in 1 .. n /\ raised[i][1] = c
        BY <1>5, <1>6, <2>2, <3>1, <3>3
      <4>2. l = i \/ i < l
        BY <1>5, <2>2
      <4>3. raised[l][1] = c
        BY <1>0, <1>5, <3>1, <4>1, <4>2 DEF TurnInv, Serving
      <4>4. QED BY <1>5, <3>1, <4>1, <4>3
    <3>4. CASE j # n + 1
      <4>0. /\ n \in Int /\ i \in Int /\ j \in Int /\ l \in Int
            /\ j <= n + 1 /\ l <= j /\ i <= l /\ 1 <= i
        OBVIOUS
      <4>1. j \in 1 .. n /\ l \in 1 .. n
        BY <3>4, <4>0
      <4>2. raised[i][1] = raised[j][1]
        BY <1>5, <2>2, <3>1, <4>1
      <4>3. raised[l][1] = raised[i][1]
        BY <1>5, <2>2, <3>1, <4>1, <4>2 DEF RaisedInOrder
      <4>4. QED BY <1>5, <3>1, <4>1, <4>3
    <3>5. QED BY <3>2, <3>3, <3>4
  <2>3. QED BY <1>5, <2>1, <2>2 DEF RaisedInOrder
<1>12. QED BY <1>8, <1>9, <1>10, <1>11

(* Every step keeps the invariant.                                         *)
LEMMA SocketsStep ==
  ASSUME SocketsInv, [SocketsNext]_sockets
  PROVE  SocketsInv'
<1> DEFINE Rest == UNCHANGED <<connection, backlog, written, wire, irqByte, raised>>
<1>1. /\ client \in [Clients -> {"new", "open", "closed"}]
      /\ irq \in {"socket", "accept", "read", "raise"}
  BY DEF SocketsInv, SocketsType
<1>2. CASE UNCHANGED sockets
  BY <1>1, <1>2, IdleStep DEF sockets, clients, server
<1>3. CASE GdbThread \/ MainReturns \/ DebuggerConnects \/ DebuggerCloses
  <2>1. Rest /\ UNCHANGED <<irq, client>>
    BY <1>3 DEF GdbThread, GdbListens, GdbAccepts, GdbCloses, GdbFails, MainReturns,
                DebuggerConnects, DebuggerCloses, clients, server
  <2>2. QED BY <1>1, <2>1, IdleStep
<1>4. CASE IrqListens \/ IrqReadFails \/ IrqShutsDown
  <2>1. Rest /\ UNCHANGED client /\ (irq' = irq \/ (irq # "raise" /\ irq' = "accept"))
    BY <1>4 DEF IrqListens, IrqReadFails, IrqShutsDown, AfterConnection, clients
  <2>2. QED BY <1>1, <2>1, IdleStep
<1>5. CASE IrqAccepts
  <2>1. CASE descriptors < Limit
    BY <1>5, <2>1, AcceptStep DEF IrqAccepts
  <2>2. CASE ~(descriptors < Limit)
    <3>1. Rest /\ UNCHANGED <<irq, client>>
      BY <1>5, <2>2 DEF IrqAccepts
    <3>2. QED BY <1>1, <3>1, IdleStep
  <2>3. QED BY <2>1, <2>2
<1>6. ASSUME NEW c \in Clients, Close(c) \/ Break(c) PROVE SocketsInv'
  <2>1. /\ Rest /\ UNCHANGED irq /\ client[c] = "open"
        /\ client' = [client EXCEPT ![c] = "closed"]
    BY <1>6 DEF Close, Break, server
  <2>2. /\ client' \in [Clients -> {"new", "open", "closed"}]
        /\ \A d \in Clients : client'[d] = "new" <=> client[d] = "new"
    BY <1>1, <2>1
  <2>3. QED BY <2>1, <2>2, IdleStep
<1>7. QED
  BY <1>2, <1>3, <1>4, <1>5, <1>6, ConnectStep, WriteStep, ReadStep, RaiseStep
     DEF SocketsNext, IrqThread, Sender

(* Whatever connects, breaks or waits, and whatever the debugger does, the *)
(* irq thread raises each client's bytes once and in the order they were   *)
(* written, one connection after the other.                                *)
THEOREM InterruptsInOrder == SocketsSpec => []RaisedInOrder
<1>1. SocketsInit => SocketsInv
  <2> SUFFICES ASSUME SocketsInit PROVE SocketsInv
    OBVIOUS
  <2> USE DEF SocketsInit
  <2>1. connection \in Clients
    BY ListenersAssumption
  <2>2. \A c \in Clients : Len(Message[c]) \in Nat
    BY ListenersAssumption
  <2>3. SocketsType
    BY <2>1, <2>2 DEF SocketsType
  <2>4. \A c : RaisedFor(c) = {} /\ Held(c) = 0
    BY DEF RaisedFor, Held
  <2>5. \A c : TakenFrom(c) = 0
    <3>1. Cardinality({}) = 0
      BY FS_EmptySet
    <3>2. ASSUME NEW c PROVE TakenFrom(c) = 0
      <4>1. RaisedFor(c) = {} /\ Held(c) = 0
        BY <2>4
      <4>2. Cardinality(RaisedFor(c)) = 0
        BY <3>1, <4>1, Zenon
      <4>3. QED BY <4>1, <4>2 DEF TakenFrom
    <3>3. QED BY <3>2
  <2>6. WireInv
    BY <2>5 DEF WireInv
  <2>7. TurnInv
    BY DEF TurnInv, Serving
  <2>8. RaisedInOrder
    BY DEF RaisedInOrder
  <2>9. QED BY <2>3, <2>6, <2>7, <2>8 DEF SocketsInv
<1>2. SocketsInv => RaisedInOrder
  BY DEF SocketsInv
<1>3. QED BY <1>1, <1>2, SocketsStep, PTL DEF SocketsSpec

-----------------------------------------------------------------------------
(* The traces.                                                             *)
Frame == [line : Lines, made : BOOLEAN]

(* The stack is the lines of the accesses the holder of the lock has begun,*)
(* and is empty when there is none.                                        *)
StackInv == /\ frames \in [Actors -> Seq(Frame)]
            /\ stack \in Seq(Lines)
            /\ \A t \in Actors : owner # t => frames[t] = <<>>
            /\ owner \notin Actors => stack = <<>>
            /\ owner \in Actors => /\ Len(stack) = Len(frames[owner])
                                    /\ \A i \in 1 .. Len(stack) : stack[i] = frames[owner][i].line

PrintedInv == printed.own \in Lines => printed.shown = printed.own

TracesInv == StackInv /\ PrintedInv

(* Front and Last of the sequences the steps use.                          *)
LEMMA FrontAndLast ==
  ASSUME NEW S, NEW s \in Seq(S), s # <<>>
  PROVE  /\ Last(s) \in S /\ Last(s) = s[Len(s)]
         /\ Front(s) \in Seq(S) /\ Len(Front(s)) = Len(s) - 1
         /\ \A i \in 1 .. Len(s) - 1 : Front(s)[i] = s[i]
         /\ Len(s) \in Nat /\ Len(s) > 0
<1>1. Len(s) \in Nat /\ Len(s) > 0
  BY EmptySeq
<1>2. Last(s) = s[Len(s)] /\ Front(s) = SubSeq(s, 1, Len(s) - 1)
  BY DEF Last, Front
<1>3. /\ SubSeq(s, 1, Len(s) - 1) \in Seq(S) /\ Len(SubSeq(s, 1, Len(s) - 1)) = Len(s) - 1
      /\ \A i \in 1 .. Len(s) - 1 : SubSeq(s, 1, Len(s) - 1)[i] = s[i]
  <2>1. \A i \in 1 .. Len(s) - 1 : s[i] \in S
    BY <1>1, ElementOfSeq
  <2> DEFINE k == Len(s) - 1
  <2>2. k \in Int /\ k >= 0
    BY <1>1
  <2> HIDE DEF k
  <2>3. /\ SubSeq(s, 1, k) \in Seq(S) /\ Len(SubSeq(s, 1, k)) = IF 1 <= k THEN k - 1 + 1 ELSE 0
        /\ \A i \in 1 .. k - 1 + 1 : SubSeq(s, 1, k)[i] = s[1 + i - 1]
    BY <2>1, <2>2, SubSeqProperties DEF k
  <2>4. Len(SubSeq(s, 1, k)) = k /\ \A i \in 1 .. k : SubSeq(s, 1, k)[i] = s[i]
    BY <2>2, <2>3
  <2>5. QED BY <2>3, <2>4 DEF k
<1>4. s[Len(s)] \in S
  BY <1>1, ElementOfSeq
<1>5. QED BY <1>1, <1>2, <1>3, <1>4

(* The lock is free or held by a thread or by main.                        *)
LEMMA ActorsAre == Threads \subseteq Actors /\ "main" \in Actors /\ "none" \notin Actors
  BY TracingAssumption DEF Actors

(* Every step keeps the invariant.                                        *)
LEMMA TracesStep ==
  ASSUME TracesInv, [TracesNext]_traces
  PROVE  TracesInv'
<1> USE DEF TracesInv, StackInv, PrintedInv
<1>1. CASE UNCHANGED traces
  BY <1>1 DEF traces
<1>2. CASE Create
  <2>1. "none" \notin Actors /\ "main" \in Actors /\ ArmCreate \notin Lines
    BY ActorsAre, TracingAssumption
  <2>2. printed' = [own |-> ArmCreate, shown |-> trace_print_location]
    BY <1>2 DEF Create, trace_access
  <2>3. /\ owner = "main" /\ owner' = "none" /\ UNCHANGED <<stack, frames>>
        /\ frames["main"] = <<>>
    BY <1>2 DEF Create
  <2>4. stack = <<>> /\ \A t \in Actors : frames[t] = <<>>
    BY <2>1, <2>3, EmptySeq
  <2>5. QED BY <2>1, <2>2, <2>3, <2>4
<1>3. ASSUME NEW t \in Threads, Lock(t) PROVE TracesInv'
  <2>1. owner = "none" /\ owner \notin Actors /\ t \in Actors
    BY <1>3, ActorsAre DEF Lock, Locks
  <2>2. /\ stack = <<>> /\ owner' = t /\ UNCHANGED <<stack, frames, printed>>
        /\ \A u \in Actors : frames[u] = <<>>
    BY <1>3, <2>1 DEF Lock
  <2>3. QED BY <2>2
<1>4. ASSUME NEW t \in Actors, Access(t) PROVE TracesInv'
  <2>1. owner = t /\ frames[t] \in Seq(Frame) /\ frames[t] # <<>>
    BY <1>4 DEF Access
  <2> DEFINE n == Len(frames[t])
  <2>2. /\ n \in 1 .. n /\ Len(stack) = n /\ stack # <<>>
        /\ Last(stack) = stack[n] /\ Top(t) = frames[t][n] /\ Top(t) \in Frame
    <3>1. n \in Nat /\ n > 0 /\ Last(frames[t]) \in Frame /\ Last(frames[t]) = frames[t][n]
      BY <2>1, FrontAndLast
    <3>2. Len(stack) = n /\ stack \in Seq(Lines)
      BY <2>1
    <3>3. stack # <<>>
      BY <3>1, <3>2
    <3>4. Last(stack) = stack[n]
      BY <3>2, <3>3, FrontAndLast
    <3>5. QED BY <3>1, <3>2, <3>3, <3>4 DEF Top
  <2>3. stack[n] = Top(t).line
    BY <2>1, <2>2
  <2>4. printed' = [own |-> Top(t).line, shown |-> stack[n]]
    BY <1>4, <2>2 DEF Access, trace_access, trace_print_location
  <2>5. PrintedInv'
    BY <2>3, <2>4
  <2>6. frames' = [frames EXCEPT
                     ![t] = [frames[t] EXCEPT ![n] = [frames[t][n] EXCEPT !.made = TRUE]]]
    BY <1>4 DEF Access
  <2> DEFINE after == [frames[t] EXCEPT ![n] = [frames[t][n] EXCEPT !.made = TRUE]]
  <2>7. [frames[t][n] EXCEPT !.made = TRUE] \in Frame
        /\ [frames[t][n] EXCEPT !.made = TRUE].line = frames[t][n].line
    BY <2>2 DEF Frame
  <2>8. after \in Seq(Frame) /\ Len(after) = n
        /\ \A i \in 1 .. n : after[i].line = frames[t][i].line
    BY <2>1, <2>2, <2>7
  <2> HIDE DEF after
  <2>9. /\ frames' \in [Actors -> Seq(Frame)] /\ frames'[t] = after
        /\ \A u \in Actors : u # t => frames'[u] = frames[u]
    BY <2>6, <2>8 DEF after
  <2>10. UNCHANGED <<owner, stack>>
    BY <1>4 DEF Access
  <2>11. StackInv'
    <3>1. \A i \in 1 .. n : stack[i] = after[i].line
      BY <2>1, <2>2, <2>8
    <3> HIDE DEF n
    <3>2. /\ frames' \in [Actors -> Seq(Frame)] /\ stack' \in Seq(Lines) /\ owner' \in Actors
          /\ \A u \in Actors : owner' # u => frames'[u] = <<>>
      BY <2>1, <2>9, <2>10
    <3>3. frames'[owner'] = after /\ stack' = stack
      BY <2>1, <2>9, <2>10
    <3>4. Len(stack') = n /\ Len(frames'[owner']) = n
      BY <2>2, <2>8, <3>3
    <3>5. \A i \in 1 .. Len(stack') : stack'[i] = frames'[owner'][i].line
      BY <3>1, <3>3, <3>4
    <3>6. QED BY <3>2, <3>4, <3>5
  <2>12. QED BY <2>5, <2>11
<1>5. ASSUME NEW t \in Actors, End(t) PROVE TracesInv'
  <2>1. owner = t /\ frames[t] \in Seq(Frame) /\ frames[t] # <<>>
    BY <1>5 DEF End
  <2> DEFINE n == Len(frames[t])
             after == Front(frames[t])
  <2>2. /\ n \in Nat /\ n > 0 /\ after \in Seq(Frame) /\ Len(after) = n - 1
        /\ \A i \in 1 .. n - 1 : after[i] = frames[t][i]
    BY <2>1, FrontAndLast
  <2>3. /\ stack # <<>> /\ Len(stack) = n /\ stack' = Front(stack)
    BY <1>5, <2>1, <2>2 DEF End, trace_end_location
  <2>4. stack' \in Seq(Lines) /\ Len(stack') = n - 1 /\ \A i \in 1 .. n - 1 : stack'[i] = stack[i]
    BY <2>3, FrontAndLast
  <2>5. frames' = [frames EXCEPT ![t] = after] /\ UNCHANGED <<owner, printed>>
    BY <1>5 DEF End
  <2> HIDE DEF after, n
  <2>6. /\ frames' \in [Actors -> Seq(Frame)] /\ frames'[t] = after
        /\ \A u \in Actors : u # t => frames'[u] = frames[u]
    BY <2>2, <2>5
  <2>7. \A i \in 1 .. n - 1 : stack[i] = frames[t][i].line
    BY <2>1, <2>2, <2>3
  <2>8. QED BY <2>1, <2>2, <2>4, <2>5, <2>6, <2>7
<1>6. ASSUME NEW t \in Threads, Unlock(t) PROVE TracesInv'
  <2>1. owner = t /\ frames[t] = <<>> /\ owner' = "none" /\ UNCHANGED <<stack, frames, printed>>
    BY <1>6 DEF Unlock
  <2>2. "none" \notin Actors /\ t \in Actors
    BY ActorsAre
  <2>3. stack = <<>>
    BY <2>1, EmptySeq
  <2>4. QED BY <2>1, <2>2, <2>3
<1>7. ASSUME NEW t \in Actors, NEW line \in Lines, Begin(t, line) PROVE TracesInv'
  <2> DEFINE frame == [line |-> line, made |-> FALSE]
             n == Len(frames[t])
             after == Append(frames[t], frame)
  <2>1. /\ owner = t /\ UNCHANGED <<owner, printed>>
        /\ stack' = Append(stack, line) /\ frames' = [frames EXCEPT ![t] = after]
    BY <1>7 DEF Begin, trace_start_location
  <2>2. frame \in Frame /\ frame.line = line /\ frames[t] \in Seq(Frame) /\ Len(stack) = n
    BY <2>1 DEF Frame
  <2>3. /\ after \in Seq(Frame) /\ Len(after) = n + 1 /\ after[n + 1].line = line
        /\ \A i \in 1 .. n : after[i] = frames[t][i]
    BY <2>2
  <2>4. /\ stack' \in Seq(Lines) /\ Len(stack') = n + 1 /\ stack'[n + 1] = line
        /\ \A i \in 1 .. n : stack'[i] = stack[i]
    BY <2>1, <2>2
  <2>5. \A i \in 1 .. n : stack[i] = frames[t][i].line
    BY <2>1, <2>2
  <2>6. n \in Nat
    BY <2>2
  <2> HIDE DEF after, n, frame
  <2>7. /\ frames' \in [Actors -> Seq(Frame)] /\ frames'[t] = after
        /\ \A u \in Actors : u # t => frames'[u] = frames[u]
    BY <2>1, <2>3
  <2>8. \A i \in 1 .. n + 1 : stack'[i] = after[i].line
    BY <2>3, <2>4, <2>5, <2>6
  <2>9. QED BY <2>1, <2>3, <2>4, <2>7, <2>8
<1>8. QED BY <1>1, <1>2, <1>3, <1>4, <1>5, <1>6, <1>7 DEF TracesNext

(* An access made through the macros prints its own line, and the stack is *)
(* empty whenever the lock is free, for any lines, any nesting and any two *)
(* or more threads, main before them: the lock is what keeps one thread's  *)
(* positions apart from another's.                                         *)
THEOREM TracesAreOwn == TracesSpec => []PositionsAreKept
<1>1. TracesInit => TracesInv
  <2>1. "main" \in Actors /\ Nothing \notin Lines
    BY ActorsAre, TracingAssumption
  <2>2. QED BY <2>1 DEF TracesInit, TracesInv, StackInv, PrintedInv, Nobody
<1>2. TracesInv => PositionsAreKept
  <2>1. "none" \notin Actors
    BY ActorsAre
  <2>2. QED BY <2>1 DEF TracesInv, StackInv, PrintedInv, PositionsAreKept
<1>3. QED BY <1>1, <1>2, TracesStep, PTL DEF TracesSpec
=============================================================================
