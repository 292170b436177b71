------------------------------ MODULE Requests ------------------------------
(***************************************************************************)
(* What the debugger is promised by the link: its requests are executed in *)
(* the order it makes them, each once, and it has its own answer before *)
(* it makes the next.  External: the client of the protocol that           *)
(* src/gdb_protocol.c and src/scanner.l serve.                             *)
(***************************************************************************)
EXTENDS Integers, Sequences

CONSTANT N                   \* the requests of a session

VARIABLES executed,          \* the requests the stub executed, in order
          answered           \* the requests whose answers it has, in order

vars == <<executed, answered>>

Init == executed = << >> /\ answered = << >>

Execute == /\ Len(answered) < N /\ Len(executed) = Len(answered)
           /\ executed' = Append(executed, Len(answered) + 1)
           /\ UNCHANGED answered

Answer == /\ Len(executed) = Len(answered) + 1
          /\ answered' = Append(answered, Len(answered) + 1)
          /\ UNCHANGED executed

Next == Execute \/ Answer

Spec == Init /\ [][Next]_vars /\ WF_vars(Next)
=============================================================================
