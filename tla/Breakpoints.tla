----------------------------- MODULE Breakpoints -----------------------------
(***************************************************************************)
(* The breakpoint table of src/gdb_protocol.c: an array kept sorted, a     *)
(* binary search, an insertion and a deletion that shift the entries above *)
(* by one, each modelled one loop iteration a step.  The table is touched  *)
(* by the debugger's thread only, one call at a time.                      *)
(***************************************************************************)
EXTENDS Integers, FiniteSets

CONSTANTS CodeAddress,              \* addresses, compared as unsigned numbers
          MAX_BREAKPOINTS_NUMBER    \* the size of the array, 1024 in the code

ASSUME CodeAddressAssumption == CodeAddress \subseteq Nat
ASSUME CapacityAssumption    == MAX_BREAKPOINTS_NUMBER \in Nat

VARIABLES breakpoints,          \* the array; malloc leaves it uninitialised
          breakpoints_number,   \* how many entries are in use
          call,                 \* the call being executed, or "none"
          address,              \* its argument
          loop,                 \* the loop it is in: "search", "up", "down" or "none"
          begin, end,           \* the bounds of the search
          j,                    \* the index of the shift
          answer                \* what the last call returned (for a lookup: found)

table == <<breakpoints, breakpoints_number>>
bounds == <<begin, end>>
tableVars == <<breakpoints, breakpoints_number, call, address, loop, begin, end, j, answer>>

Index == 0 .. (MAX_BREAKPOINTS_NUMBER - 1)

Call == {"add", "remove", "lookup"}

TableTypeOK == /\ breakpoints \in [Index -> CodeAddress]
               /\ breakpoints_number \in 0 .. MAX_BREAKPOINTS_NUMBER
               /\ call \in Call \cup {"none"}
               /\ address \in CodeAddress
               /\ loop \in {"search", "up", "down", "none"}
               /\ begin \in 0 .. MAX_BREAKPOINTS_NUMBER
               /\ end \in 0 .. MAX_BREAKPOINTS_NUMBER
               /\ j \in 0 .. MAX_BREAKPOINTS_NUMBER
               /\ answer \in BOOLEAN

TableInit == /\ breakpoints \in [Index -> CodeAddress]
             /\ breakpoints_number = 0
             /\ call = "none"
             /\ address \in CodeAddress
             /\ loop = "none"
             /\ begin = 0 /\ end = 0 /\ j = 0
             /\ answer = FALSE

Return(value) == call' = "none" /\ loop' = "none" /\ answer' = value

-----------------------------------------------------------------------------
(* gdb_add_breakpoint refuses when the table is full, before it looks for  *)
(* the address; the other calls search at once.                            *)
Start(c, a) ==
    /\ call = "none"
    /\ call' = c /\ loop' = "search" /\ address' = a
    /\ begin' = 0 /\ end' = breakpoints_number
    /\ UNCHANGED <<table, j, answer>>

MutantHasRoom == breakpoints_number <= MAX_BREAKPOINTS_NUMBER    \* mutant: off by one

HasRoom == breakpoints_number < MAX_BREAKPOINTS_NUMBER

StartAdd(a) == HasRoom /\ Start("add", a)

RefuseAdd(a) ==
    /\ call = "none" /\ ~HasRoom
    /\ address' = a /\ answer' = FALSE
    /\ UNCHANGED <<table, call, loop, bounds, j>>

(* gdb_find_breakpoint: one iteration of the binary search.                *)
middle == (begin + end) \div 2

\* mutant: the middle entry is given up with those above it
MutantSearchBelow ==
    /\ loop = "search" /\ begin < end /\ breakpoints[middle] > address
    /\ end' = (IF middle > begin THEN middle - 1 ELSE begin)
    /\ UNCHANGED <<table, call, address, loop, begin, j, answer>>

SearchBelow ==
    /\ loop = "search" /\ begin < end /\ breakpoints[middle] > address
    /\ end' = middle
    /\ UNCHANGED <<table, call, address, loop, begin, j, answer>>

\* mutant: the middle entry is kept
MutantSearchAbove ==
    /\ loop = "search" /\ begin < end /\ breakpoints[middle] < address
    /\ begin' = middle
    /\ UNCHANGED <<table, call, address, loop, end, j, answer>>

SearchAbove ==
    /\ loop = "search" /\ begin < end /\ breakpoints[middle] < address
    /\ begin' = middle + 1
    /\ UNCHANGED <<table, call, address, loop, end, j, answer>>

Found == loop = "search" /\ begin < end /\ breakpoints[middle] = address
Missing == loop = "search" /\ begin >= end

(* A lookup, or the addition of a breakpoint already there, ends on what   *)
(* the search says; so does the removal of one that is missing.            *)
FoundReturn ==
    /\ Found /\ call \in {"add", "lookup"}
    /\ Return(TRUE)
    /\ UNCHANGED <<table, address, bounds, j>>

MissingReturn ==
    /\ Missing /\ call \in {"remove", "lookup"}
    /\ Return(FALSE)
    /\ UNCHANGED <<table, address, bounds, j>>

(* The rest of gdb_add_breakpoint: open a place at the end, move it down   *)
(* past the larger entries, fill it.                                       *)
OpenPlace ==
    /\ Missing /\ call = "add"
    /\ j' = breakpoints_number
    /\ breakpoints_number' = breakpoints_number + 1
    /\ loop' = "up"
    /\ UNCHANGED <<breakpoints, call, address, bounds, answer>>

MutantMustShift == j > 1 /\ breakpoints[j - 1] > address    \* mutant: off by one

MustShift == j > 0 /\ breakpoints[j - 1] > address

ShiftUp ==
    /\ loop = "up" /\ MustShift
    /\ breakpoints' = [breakpoints EXCEPT ![j] = breakpoints[j - 1]]
    /\ j' = j - 1
    /\ UNCHANGED <<breakpoints_number, call, address, loop, bounds, answer>>

FillPlace ==
    /\ loop = "up" /\ ~MustShift
    /\ breakpoints' = [breakpoints EXCEPT ![j] = address]
    /\ Return(TRUE)
    /\ UNCHANGED <<breakpoints_number, address, bounds, j>>

(* The rest of gdb_remove_breakpoint: close the place of the address.      *)
ClosePlace ==
    /\ Found /\ call = "remove"
    /\ breakpoints_number' = breakpoints_number - 1
    /\ j' = middle
    /\ loop' = "down"
    /\ UNCHANGED <<breakpoints, call, address, bounds, answer>>

ShiftDown ==
    /\ loop = "down" /\ j < breakpoints_number
    /\ breakpoints' = [breakpoints EXCEPT ![j] = breakpoints[j + 1]]
    /\ j' = j + 1
    /\ UNCHANGED <<breakpoints_number, call, address, loop, bounds, answer>>

\* mutant: the loop ends one entry early
MutantFinishRemove ==
    /\ loop = "down" /\ j >= breakpoints_number - 1
    /\ Return(TRUE)
    /\ UNCHANGED <<table, address, bounds, j>>

FinishRemove ==
    /\ loop = "down" /\ j >= breakpoints_number
    /\ Return(TRUE)
    /\ UNCHANGED <<table, address, bounds, j>>

-----------------------------------------------------------------------------
Progress == \/ SearchBelow \/ SearchAbove \/ FoundReturn \/ MissingReturn
            \/ OpenPlace \/ ShiftUp \/ FillPlace
            \/ ClosePlace \/ ShiftDown \/ FinishRemove

TableNext == \/ \E a \in CodeAddress : \/ StartAdd(a)
                                      \/ RefuseAdd(a)
                                      \/ Start("remove", a)
                                      \/ Start("lookup", a)
             \/ Progress

TableSpec == TableInit /\ [][TableNext]_tableVars

(* The debugger's thread does not stop inside a call.                      *)
TableFairSpec == TableSpec /\ WF_tableVars(Progress)

-----------------------------------------------------------------------------
(* Positions that hold an entry: all those in use, but while a place is    *)
(* being opened or closed the hole at j holds none and, when closing, the  *)
(* last entry still stands one past the number.                            *)
Used == {k \in Index : /\ k < breakpoints_number \/ (loop = "down" /\ k = breakpoints_number)
                       /\ loop \in {"up", "down"} => k # j}

(* The entries are strictly increasing, hole excepted, at every step of    *)
(* every shift: the binary search is never given a table out of order or   *)
(* with a duplicate (src/gdb_protocol.c lines 60-106).                     *)
Sorted == \A k, l \in Used : k < l => breakpoints[k] < breakpoints[l]

(* The search never discards the address: wherever it is, it is between    *)
(* the bounds, so what the search misses is not in the table.              *)
SearchBracketed ==
    loop = "search" =>
        \A k \in Used : breakpoints[k] = address => begin <= k /\ k < end

(* Every call returns: the halving and the two shifts make progress.       *)
CallsReturn == call # "none" ~> call = "none"

(* The entries as a set.  An address being removed counts until the call   *)
(* returns.                                                                *)
Entries == {breakpoints[k] : k \in Used} \cup (IF loop = "down" THEN {address} ELSE {})

BreakpointSet == INSTANCE BreakpointSet WITH
                     Address <- CodeAddress, Capacity <- MAX_BREAKPOINTS_NUMBER,
                     members <- Entries

(* The three functions behave as insertion, deletion and membership on a   *)
(* set with room for MAX_BREAKPOINTS_NUMBER addresses, each taking effect  *)
(* at one instant.                                                         *)
ImplementsSet == BreakpointSet!Spec
=============================================================================
