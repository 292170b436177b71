------------------------------ MODULE Listeners ------------------------------
(***************************************************************************)
(* The two servers of src/arm_simulator.c and the sockets under them       *)
(* (src/csapp.c): the gdb thread serves one connection and ends, the irq   *)
(* thread accepts one connection after the other and raises an exception   *)
(* for every byte.  A wrapper that fails ends the program (unix_error), so *)
(* the descriptors the process has left are part of the state.             *)
(*                                                                         *)
(* The clients are other programs: send_irq (src/send_irq.c) connects,     *)
(* writes and closes; the debugger connects, and closes or breaks its      *)
(* connection.  A socket that listens with a backlog of 1 lets only so     *)
(* many connections wait; another one is not made as long as they do.  The *)
(* lock around arm_exception is Simulator's.                               *)
(***************************************************************************)
EXTENDS Integers, Sequences, FiniteSets, SequencesExt

CONSTANTS Clients,          \* programs that send interrupts
          Message,          \* Message[c]: the bytes c sends
          Limit,            \* descriptors a process may have (RLIMIT_NOFILE)
          AtStart,          \* those it has when main starts the threads
          Waiting,          \* connections that may wait on listen(socket, 1)
          MaxResets         \* bound on connections that break

ASSUME ListenersAssumption == /\ Clients # {}
                              /\ Message \in [Clients -> Seq(1 .. 7)]
                              /\ Limit \in Nat /\ AtStart \in Nat
                              /\ Waiting \in Nat \ {0}
                              /\ MaxResets \in Nat

VARIABLES descriptors,      \* descriptors in use
          gdb,              \* where the gdb thread is
          irq,              \* where the irq thread is
          connection,       \* the client the irq thread serves
          backlog,          \* connections not accepted yet
          client,           \* "new", "open" or "closed", for each client
          written,          \* bytes each has written
          wire,             \* bytes written and not read
          irqByte,          \* the byte the irq thread has read
          raised,           \* <<client, byte>> in the order they were raised
          broken,           \* connections that broke
          session,          \* the debugger's: "new", "open", "closed", "broken"
          exit              \* "no", "returned", or the wrapper that failed

clients == <<backlog, client, written, wire, broken, session>>
server  == <<descriptors, gdb, irq, connection, irqByte, raised, exit>>
sockets == <<clients, server>>

Running == exit = "no"
Fails(wrapper) == exit' = wrapper

-----------------------------------------------------------------------------
(* The clients.                                                            *)
Connect(c) == /\ client[c] = "new" /\ irq # "socket" /\ Len(backlog) < Waiting
              /\ client' = [client EXCEPT ![c] = "open"]
              /\ backlog' = Append(backlog, c)
              /\ UNCHANGED <<written, wire, broken, session, server>>

Write(c) == /\ client[c] = "open" /\ written[c] < Len(Message[c])
            /\ written' = [written EXCEPT ![c] = @ + 1]
            /\ wire' = [wire EXCEPT ![c] = Append(@, Message[c][written[c] + 1])]
            /\ UNCHANGED <<backlog, client, broken, session, server>>

Close(c) == /\ client[c] = "open" /\ written[c] = Len(Message[c])
            /\ client' = [client EXCEPT ![c] = "closed"]
            /\ UNCHANGED <<backlog, written, wire, broken, session, server>>

Break(c) == /\ client[c] = "open" /\ Cardinality(broken) < MaxResets
            /\ client' = [client EXCEPT ![c] = "closed"]
            /\ broken' = broken \cup {c}
            /\ UNCHANGED <<backlog, written, wire, session, server>>

DebuggerConnects == /\ session = "new" /\ gdb # "socket"
                    /\ session' = "open"
                    /\ UNCHANGED <<backlog, client, written, wire, broken, server>>

DebuggerCloses == /\ session = "open"
                  /\ session' \in {"closed", "broken"}
                  /\ UNCHANGED <<backlog, client, written, wire, broken, server>>

-----------------------------------------------------------------------------
(* A wrapper that takes a descriptor.  accept looks for one first, and     *)
(* waits for a connection only when there is one.                          *)
Take(wrapper) == IF descriptors < Limit
                 THEN descriptors' = descriptors + 1 /\ UNCHANGED exit
                 ELSE Fails(wrapper) /\ UNCHANGED descriptors

create_server == Take("Socket error")

(* The gdb thread.                                                         *)
GdbListens == /\ gdb = "socket" /\ gdb' = "accept"
              /\ create_server
              /\ UNCHANGED <<irq, connection, irqByte, raised, clients>>

GdbAccepts == /\ gdb = "accept" /\ (descriptors < Limit => session # "new")
              /\ gdb' = "scan"
              /\ Take("Accept error")
              /\ UNCHANGED <<irq, connection, irqByte, raised, clients>>

(* gdb_scanner returns at the end of the connection, which it leaves open; *)
(* the listening socket is closed.                                         *)
GdbCloses == /\ gdb = "scan" /\ session = "closed"
             /\ gdb' = "exited" /\ descriptors' = descriptors - 1
             /\ UNCHANGED <<irq, connection, irqByte, raised, exit, clients>>

(* The scanner's read fails on a connection that broke (YY_FATAL_ERROR of  *)
(* the generated scanner), and an answer on one that has ended: with the   *)
(* error, or with the signal of such a write, which nothing handles.       *)
GdbFails == /\ gdb = "scan"
            /\ \/ session = "broken" /\ Fails("read() in flex scanner failed")
               \/ session \in {"closed", "broken"} /\ Fails("Rio_writen error")
            /\ UNCHANGED <<descriptors, gdb, irq, connection, irqByte, raised, clients>>

MainReturns == /\ gdb = "exited" /\ exit' = "returned"
               /\ UNCHANGED <<descriptors, gdb, irq, connection, irqByte, raised, clients>>

-----------------------------------------------------------------------------
(* The irq thread.                                                         *)
IrqListens == /\ irq = "socket" /\ irq' = "accept"
              /\ create_server
              /\ UNCHANGED <<gdb, connection, irqByte, raised, clients>>

IrqAccepts == /\ irq = "accept" /\ (descriptors < Limit => backlog # << >>)
              /\ Take("Accept error")
              /\ IF descriptors < Limit
                 THEN /\ connection' = Head(backlog) /\ backlog' = Tail(backlog)
                      /\ irq' = "read"
                 ELSE UNCHANGED <<connection, backlog, irq>>
              /\ UNCHANGED <<gdb, irqByte, raised, client, written, wire, broken, session>>

Pending == wire[connection]

\* mutant: the last byte written is read first
MutantNextByte(bytes) == bytes[Len(bytes)]

NextByte(bytes) == Head(bytes)

IrqReads == /\ irq = "read" /\ Pending # << >>
            /\ irqByte' = NextByte(Pending)
            /\ wire' = [wire EXCEPT ![connection] = Tail(@)]
            /\ irq' = "raise"
            /\ UNCHANGED <<descriptors, gdb, connection, raised, exit,
                           backlog, client, written, broken, session>>

Raise == /\ irq = "raise" /\ irq' = "read"
         /\ raised' = Append(raised, <<connection, irqByte>>)
         /\ UNCHANGED <<descriptors, gdb, connection, irqByte, exit, clients>>

(* A read that fails ends the program; one that finds the end of the       *)
(* connection ends the connection: shut down, its descriptor kept.         *)
IrqReadFails == /\ irq = "read" /\ connection \in broken
                /\ Fails("Read error")
                /\ UNCHANGED <<descriptors, gdb, irq, connection, irqByte, raised, clients>>


AfterConnection == "accept"

IrqShutsDown == /\ irq = "read" /\ Pending = << >>
                /\ client[connection] = "closed" /\ connection \notin broken
                /\ irq' = AfterConnection
                /\ UNCHANGED <<descriptors, gdb, connection, irqByte, raised, exit, clients>>

-----------------------------------------------------------------------------
SocketsInit == /\ descriptors = AtStart
               /\ gdb = "socket" /\ irq = "socket"
               /\ connection = (CHOOSE c \in Clients : TRUE) /\ irqByte = 0    \* not read yet
               /\ backlog = << >>
               /\ client = [c \in Clients |-> "new"]
               /\ written = [c \in Clients |-> 0]
               /\ wire = [c \in Clients |-> << >>]
               /\ raised = << >> /\ broken = {}
               /\ session = "new" /\ exit = "no"

GdbThread == GdbListens \/ GdbAccepts \/ GdbCloses \/ GdbFails
IrqThread == IrqListens \/ IrqAccepts \/ IrqReads \/ Raise \/ IrqReadFails \/ IrqShutsDown
Sender(c) == Connect(c) \/ Write(c) \/ Close(c)

SocketsNext == Running /\ (\/ GdbThread \/ IrqThread \/ MainReturns
                           \/ \E c \in Clients : Sender(c) \/ Break(c)
                           \/ DebuggerConnects \/ DebuggerCloses)

(* The threads run and send_irq ends: it writes what it has and closes     *)
(* (src/send_irq.c lines 67-70).  The debugger owes nothing.               *)
SocketsSpec == /\ SocketsInit /\ [][SocketsNext]_sockets
               /\ WF_sockets(Running /\ GdbThread) /\ WF_sockets(Running /\ IrqThread)
               /\ WF_sockets(Running /\ MainReturns)
               /\ \A c \in Clients : WF_sockets(Running /\ (Write(c) \/ Close(c)))

-----------------------------------------------------------------------------
(* Every exception raised is a byte some client wrote, each client's in    *)
(* the order it wrote them and once, and the bytes of one connection are   *)
(* not mixed with those of another (src/arm_simulator.c lines 96-105).     *)
RaisedFor(c) == {i \in DOMAIN raised : raised[i][1] = c}

\* the place of the i-th exception raised among those of its client
Place(i) == Cardinality({j \in 1 .. i : raised[j][1] = raised[i][1]})

RaisedInOrder ==
    /\ \A i \in DOMAIN raised : LET c == raised[i][1]
                               IN  Place(i) <= written[c] /\ raised[i][2] = Message[c][Place(i)]
    /\ \A i, j \in DOMAIN raised : i < j /\ raised[i][1] = raised[j][1] =>
          \A k \in i .. j : raised[k][1] = raised[i][1]

(* A client that connects has its interrupts raised, whoever waits before  *)
(* it, unless the program ends: with the debugger's session, with a        *)
(* connection that breaks, its own or another, or when every descriptor is *)
(* taken, in either thread.  That takes Limit - AtStart - 3 interrupt      *)
(* connections in all, ended ones included, for their descriptors are not  *)
(* given back (src/arm_simulator.c lines 53, 78, 86-105 and 205,           *)
(* src/csapp.c lines 202-208 and 642-645).                                 *)
Accepted == {c \in Clients : client[c] # "new"} \ ToSet(backlog)

SessionOver == exit \in {"returned", "read() in flex scanner failed", "Rio_writen error"}

OutOfDescriptors == /\ exit \in {"Socket error", "Accept error"}
                    /\ Cardinality(Accepted) >= Limit - AtStart - 3

=============================================================================
