----------------------------- MODULE MCStorage -----------------------------
(***************************************************************************)
(* What is kept from one call to the next, under any sequence of calls:    *)
(* the register file (RegisterFile), the memory (MemoryCalls) and the      *)
(* debugger's breakpoints (Breakpoints).  They share no state: a behaviour *)
(* is one of a single part, chosen at the start, and the others wait as    *)
(* they began.                                                             *)
(*                                                                         *)
(* Registers: one number of each banked class, the two modes that share a  *)
(* bank, two that have their own, one field that names no mode (0x14),     *)
(* and a status word that puts the register file in FIQ mode.              *)
(* Breakpoints: a table of three for four addresses, so that it fills up.  *)
(***************************************************************************)
EXTENDS RegisterFile, MemoryCalls, Breakpoints

VARIABLE part                                       \* the part that moves

MCModeArgs    == {USR, SYS, IRQ, FIQ, {2, 4}}
MCStatus      == {FIQ}
MCCodeAddress == 0 .. 3

(* What malloc leaves, in the memory or in the table, is anything when the *)
(* calls move, zero otherwise.                                             *)
MCInit == /\ Init /\ CallsInit /\ TableInit
          /\ part \in {"registers", "memory", "breakpoints"}
          /\ part # "memory" => data = [a \in Address |-> 0]
          /\ part # "breakpoints" => breakpoints = [i \in Index |-> 0] /\ address = 0

InTable(A) == part = "breakpoints" /\ A /\ UNCHANGED <<part, vars, calls>>

RegisterCalls   == part = "registers" /\ Next /\ UNCHANGED <<part, calls, tableVars>>
MemoryAccess    == part = "memory" /\ CallsNext /\ UNCHANGED <<part, vars, tableVars>>
BreakpointCalls == InTable(TableNext)

MCNext == RegisterCalls \/ MemoryAccess \/ BreakpointCalls

all == <<part, vars, calls, tableVars>>

(* The fairness of Breakpoints.                                            *)
MCSpec == MCInit /\ [][MCNext]_all /\ WF_all(InTable(Progress))
=============================================================================
