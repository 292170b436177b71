---------------------------- MODULE BreakpointSet ----------------------------
(***************************************************************************)
(* What the debugger stub promises about breakpoints: a set of addresses   *)
(* of bounded size.  Breakpoints shows that the sorted array of            *)
(* src/gdb_protocol.c implements it.                                       *)
(***************************************************************************)
EXTENDS Naturals, FiniteSets

CONSTANTS Address, Capacity

VARIABLES members,     \* the addresses that stop a continued program
          answer       \* what the last call returned

vars == <<members, answer>>

Init == members = {} /\ answer = FALSE

(* A full set takes nothing more, and answers so even for a member.        *)
Add(a) == IF Cardinality(members) < Capacity
          THEN members' = members \cup {a} /\ answer' = TRUE
          ELSE UNCHANGED members /\ answer' = FALSE

Remove(a) == members' = members \ {a} /\ answer' = (a \in members)

Lookup(a) == UNCHANGED members /\ answer' = (a \in members)

Next == \E a \in Address : Add(a) \/ Remove(a) \/ Lookup(a)

Spec == Init /\ [][Next]_vars
=============================================================================
