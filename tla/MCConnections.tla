--------------------------- MODULE MCConnections ---------------------------
(***************************************************************************)
(* What goes on at the edges of the two threads: the link to the debugger  *)
(* (GdbLink), the servers and their sockets (Listeners), and the stack of  *)
(* positions the accesses of both are traced with (Tracing).  They share   *)
(* no state: a behaviour is one of a single part, chosen at the start, and *)
(* the others wait as they began.                                          *)
(***************************************************************************)
EXTENDS GdbLink, Listeners, Tracing

CONSTANTS c1, c2, c3                              \* clients of the irq server

VARIABLE part                                   \* the part that moves

-----------------------------------------------------------------------------
(* Three clients, two of whom may wait; the first sends two interrupts on  *)
(* one connection.  The process starts with stdin, stdout and stderr, and  *)
(* has four descriptors more: two listen, and the debugger and a client    *)
(* take the rest, or two clients, or one listens and all three clients do. *)
(* Both threads, and main before them, trace from two lines accesses       *)
(* nested three deep.                                                      *)
MCClients == {c1, c2, c3}
MCMessage == [c \in MCClients |-> IF c = c1 THEN <<4, 3>> ELSE <<1>>]

-----------------------------------------------------------------------------
all == <<part, vars, sockets, traces>>

MCInit == /\ part \in {"link", "sockets", "traces"}
          /\ Init /\ SocketsInit /\ TracesInit

InLink(A)    == part = "link" /\ A /\ UNCHANGED <<part, sockets, traces>>
InSockets(A) == part = "sockets" /\ A /\ UNCHANGED <<part, vars, traces>>
InTraces(A)  == part = "traces" /\ A /\ UNCHANGED <<part, vars, sockets>>

MCLink    == InLink(Next)
MCSockets == InSockets(SocketsNext)
MCTraces  == InTraces(TracesNext)

MCNext == MCLink \/ MCSockets \/ MCTraces

(* The fairness of GdbLink and of Listeners.                               *)
MCSpec ==
    /\ MCInit /\ [][MCNext]_all
    /\ WF_all(InLink(Debugger)) /\ WF_all(InLink(Scanner))
    /\ WF_all(InSockets(Running /\ GdbThread))
    /\ WF_all(InSockets(Running /\ IrqThread))
    /\ WF_all(InSockets(Running /\ MainReturns))
    /\ \A c \in Clients : WF_all(InSockets(Running /\ (Write(c) \/ Close(c))))
=============================================================================
