------------------------------- MODULE Tracing -------------------------------
(***************************************************************************)
(* Where a traced access says it was made (src/trace.c): the macros of     *)
(* src/trace_location.h push the line of the call on a stack, make the     *)
(* access, which prints the top of the stack, and pop.  The arguments of   *)
(* an access are evaluated after the push, so an access may be nested in   *)
(* another one; the operands of "access + END_LOCATION" are evaluated from *)
(* left to right, as the compiler does, and the stack is shared by the     *)
(* gdb thread and the irq thread, under the simulator's lock only.         *)
(*                                                                         *)
(* Registers, memory and the position are traced; nothing calls            *)
(* trace_disable.                                                          *)
(***************************************************************************)
EXTENDS Integers, Sequences, SequencesExt

CONSTANTS Threads,          \* the gdb thread and the irq thread
          Lines,            \* places in the source an access is made from
          ArmCreate,        \* the line of arm_create, in src/arm_core.c
          Nothing,          \* no location
          MaxNesting,       \* accesses in the arguments of one another
          MaxHolds          \* bound on the times the lock is taken

ASSUME TracingAssumption == /\ ArmCreate \notin Lines
                            /\ Nothing \notin Lines \cup {ArmCreate}
                            /\ Threads \cap {"main", "none"} = {}
                            /\ MaxNesting \in Nat \ {0} /\ MaxHolds \in Nat

VARIABLES owner,            \* holder of the lock: a thread, "main" or "none"
          stack,            \* location_file_stack and location_line_stack
          frames,           \* accesses begun and not ended, for each
                          \* thread and for main
          printed,          \* the last line printed: of which access, where
          holds             \* times the lock has been taken

Actors == Threads \cup {"main"}

traces == <<owner, stack, frames, printed, holds>>

Nobody == [own |-> Nothing, shown |-> Nothing]

-----------------------------------------------------------------------------
trace_start_location(line) == stack' = Append(stack, line)

trace_end_location == stack' = Front(stack)

(* trace_print_location: nothing when the stack is empty.                  *)
trace_print_location == IF stack = <<>> THEN Nothing ELSE Last(stack)

trace_access(line) == printed' = [own |-> line, shown |-> trace_print_location]

Top(t) == Last(frames[t])

-----------------------------------------------------------------------------
TracesInit == /\ owner = "main" /\ stack = <<>> /\ printed = Nobody /\ holds = 0
              /\ frames = [t \in Actors |-> <<>>]

(* arm_create, in main, resets the processor, whose accesses are made      *)
(* through the macros like any others, and writes the stack pointer;       *)
(* src/arm_core.c is compiled without the macros.  The threads start after *)
(* it.                                                                     *)
Create == /\ owner = "main" /\ frames["main"] = <<>>
          /\ trace_access(ArmCreate)
          /\ owner' = "none"
          /\ UNCHANGED <<stack, frames, holds>>

\* mutant: the lock is taken while it is held
MutantLocks(t) == owner # "main"
Locks(t) == owner = "none"

Lock(t) == /\ Locks(t) /\ owner # t /\ holds < MaxHolds
           /\ owner' = t /\ holds' = holds + 1
           /\ UNCHANGED <<stack, frames, printed>>

(* LOCATION: the arguments of the access follow, and the access after them.*)
Begin(t, line) == /\ owner = t /\ Len(frames[t]) < MaxNesting
                  /\ frames[t] # <<>> => ~Top(t).made
                  /\ trace_start_location(line)
                  /\ frames' = [frames EXCEPT ![t] = Append(@, [line |-> line, made |-> FALSE])]
                  /\ UNCHANGED <<owner, printed, holds>>

Access(t) == /\ frames[t] # <<>> /\ ~Top(t).made
             /\ trace_access(Top(t).line)
             /\ frames' = [frames EXCEPT ![t][Len(frames[t])].made = TRUE]
             /\ UNCHANGED <<owner, stack, holds>>

(* END_LOCATION.                                                           *)
End(t) == /\ frames[t] # <<>> /\ Top(t).made
          /\ trace_end_location
          /\ frames' = [frames EXCEPT ![t] = Front(@)]
          /\ UNCHANGED <<owner, printed, holds>>

Unlock(t) == /\ owner = t /\ frames[t] = <<>>
             /\ owner' = "none"
             /\ UNCHANGED <<stack, frames, printed, holds>>

TracesNext == \/ Create
              \/ \E t \in Threads : Lock(t) \/ Unlock(t)
              \/ \E t \in Actors : \/ Access(t) \/ End(t)
                                   \/ \E line \in Lines : Begin(t, line)

TracesSpec == TracesInit /\ [][TracesNext]_traces

-----------------------------------------------------------------------------
(* An access made through the macros prints its own line, however deep it  *)
(* is in the arguments of others and whatever the other thread traced      *)
(* before, or main when it reset the processor; and the stack is left as   *)
(* it was found: it is empty whenever the lock is free, so that 128 places *)
(* are enough for ever (src/trace.c lines 56-80, src/trace_location.h      *)
(* lines 27-53).                                                           *)
PositionsAreKept ==
    /\ printed.own \in Lines => printed.shown = printed.own
    /\ owner = "none" => stack = <<>>
=============================================================================
