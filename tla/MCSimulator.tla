----------------------------- MODULE MCSimulator -----------------------------
(***************************************************************************)
(* Two programs for Simulator, over five addresses with the handler at 4.  *)
(***************************************************************************)
EXTENDS Simulator

MCPc == 0 .. 4

(* Every run ends: 0 branches, 1 falls through, 2 is undefined and leads   *)
(* to the handler, 3 ends the simulation, and the handler goes back to 3.  *)
Stopping == [a \in MCPc |-> CASE a = 0 -> {<<1, 0>>, <<2, 0>>}
                              [] a = 1 -> {<<2, 0>>}
                              [] a = 2 -> {<<4, 7>>}
                              [] a = 3 -> {<<3, 9>>}
                              [] a = 4 -> {<<3, 0>>}]

(* 0 and 1 branch to each other for ever.                                  *)
Looping == [a \in MCPc |-> CASE a = 0 -> {<<1, 0>>}
                             [] a = 1 -> {<<0, 0>>}
                             [] OTHER -> {<<3, 9>>}]
=============================================================================
