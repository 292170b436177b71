-------------------------- MODULE Breakpoints_proofs --------------------------
(***************************************************************************)
(* Proofs about Breakpoints, for every set of addresses and every size of  *)
(* the table.                                                              *)
(***************************************************************************)
EXTENDS Breakpoints, FiniteSetTheorems, TLAPS

(* Where the loops stand.                                                  *)
Control == /\ call = "none" <=> loop = "none"
           /\ loop = "up" => call = "add"
           /\ loop = "down" => call = "remove"
           /\ loop = "search" /\ call = "add" => HasRoom

Bounds == /\ loop = "search" => begin <= end /\ end <= breakpoints_number
          /\ loop = "up" => j < breakpoints_number
          /\ loop = "down" => j <= breakpoints_number /\ breakpoints_number < MAX_BREAKPOINTS_NUMBER

(* While a place is opened or closed the address is in no other place, and *)
(* the hole is where it belongs.                                           *)
Hole == /\ loop \in {"up", "down"} => \A k \in Used : breakpoints[k] # address
        /\ loop = "up" => \A k \in Used : k > j => breakpoints[k] > address

IInv == TableTypeOK /\ Control /\ Bounds /\ Sorted /\ SearchBracketed /\ Hole

(* The middle of a search is between its bounds.                           *)
LEMMA MiddleBetween ==
  ASSUME begin \in Nat, end \in Nat, begin < end
  PROVE  middle \in Nat /\ begin <= middle /\ middle < end
  BY DEF middle

(* An empty table is in order.                                             *)
LEMMA InitInv == TableInit => IInv
  <1> SUFFICES ASSUME TableInit PROVE IInv
      OBVIOUS
  <1> USE DEF TableInit
  <1>1. TableTypeOK
    <2>1. 0 \in 0 .. MAX_BREAKPOINTS_NUMBER
          BY CapacityAssumption
    <2> QED  BY <2>1 DEF TableTypeOK
  <1>2. Used = {}
        BY CapacityAssumption DEF Used, Index
  <1>3. Sorted /\ SearchBracketed
        BY <1>2 DEF Sorted, SearchBracketed
  <1>4. Control /\ Bounds /\ Hole
        BY DEF Control, Bounds, Hole
  <1> QED  BY <1>1, <1>3, <1>4 DEF IInv

(* A place of the array holds a number.                                    *)
LEMMA EntryIsNumber ==
  ASSUME TableTypeOK
  PROVE  address \in Nat /\ \A k \in Index : breakpoints[k] \in Nat
  BY CodeAddressAssumption DEF TableTypeOK

(* A call begins.                                                          *)
LEMMA StartInv ==
  ASSUME IInv, NEW a \in CodeAddress,
         StartAdd(a) \/ RefuseAdd(a) \/ Start("remove", a) \/ Start("lookup", a)
  PROVE  IInv'
  <1> USE CapacityAssumption DEF IInv, StartAdd, RefuseAdd, Start, table, bounds, HasRoom
  <1>1. TableTypeOK'
    <2>1. 0 \in 0 .. MAX_BREAKPOINTS_NUMBER
          OBVIOUS
    <2>2. begin' \in 0 .. MAX_BREAKPOINTS_NUMBER /\ end' \in 0 .. MAX_BREAKPOINTS_NUMBER
          BY <2>1 DEF TableTypeOK
    <2>3. call' \in Call \cup {"none"} /\ loop' \in {"search", "up", "down", "none"}
          BY DEF TableTypeOK, Call
    <2> QED  BY <2>2, <2>3 DEF TableTypeOK
  <1>2. Control'          BY DEF Control
  <1>3. Bounds'           BY DEF Bounds, TableTypeOK, Control
  <1>4. Used' = Used      BY DEF Used, Control
  <1>5. Sorted'           BY <1>4 DEF Sorted
  <1>6. SearchBracketed'  BY <1>4 DEF SearchBracketed, Used, Index, Control, TableTypeOK
  <1>7. Hole'             BY DEF Hole, Control
  <1> QED  BY <1>1, <1>2, <1>3, <1>5, <1>6, <1>7

(* One halving of the search, on either side: what it gives up is larger,  *)
(* or smaller, than the address.                                           *)
LEMMA SearchInv ==
  ASSUME IInv, SearchBelow \/ SearchAbove
  PROVE  IInv'
  <1> USE CapacityAssumption, CodeAddressAssumption
          DEF IInv, SearchBelow, SearchAbove, table, HasRoom
  <1>1. middle \in Nat /\ begin <= middle /\ middle < end
        BY MiddleBetween DEF TableTypeOK
  <1>2. middle \in Used
        BY <1>1 DEF Used, Index, Bounds, TableTypeOK
  <1>3. TableTypeOK'           BY <1>1 DEF TableTypeOK
  <1>4. Control'          BY DEF Control
  <1>5. Bounds'           BY <1>1 DEF Bounds, TableTypeOK
  <1>6. Used' = Used      BY DEF Used
  <1>7. Sorted'           BY <1>6 DEF Sorted
  <1>8. SearchBracketed'
    <2> SUFFICES ASSUME NEW k \in Used, breakpoints[k] = address
                 PROVE  begin' <= k /\ k < end'
        BY <1>6 DEF SearchBracketed
    <2>1. k \in Nat /\ begin <= k /\ k < end
          BY DEF SearchBracketed, Used, Index
    <2>2. CASE SearchBelow
      <3>1. middle < k => breakpoints[middle] < breakpoints[k]
            BY <1>2 DEF Sorted
      <3>2. ~(middle < k) /\ k # middle
            BY <2>2, <2>1, <3>1, <1>1, <1>2, EntryIsNumber DEF Used
      <3> QED  BY <2>1, <2>2, <3>2, <1>1
    <2>3. CASE SearchAbove
      <3>1. k < middle => breakpoints[k] < breakpoints[middle]
            BY <1>2 DEF Sorted
      <3>2. ~(k < middle) /\ k # middle
            BY <2>3, <2>1, <3>1, <1>1, <1>2, EntryIsNumber DEF Used
      <3> QED  BY <2>1, <2>3, <3>2, <1>1
    <2> QED  BY <2>2, <2>3
  <1>9. Hole'             BY DEF Hole
  <1> QED  BY <1>3, <1>4, <1>5, <1>7, <1>8, <1>9

(* A call that ends with the search leaves the table alone.                *)
LEMMA ReturnInv ==
  ASSUME IInv, FoundReturn \/ MissingReturn
  PROVE  IInv'
  <1> USE DEF IInv, FoundReturn, MissingReturn, Found, Missing, Return, table, bounds
  <1>1. TableTypeOK'           BY DEF TableTypeOK
  <1>2. Control'          BY DEF Control
  <1>3. Bounds'           BY DEF Bounds
  <1>4. Used' = Used      BY DEF Used
  <1>5. Sorted'           BY <1>4 DEF Sorted
  <1>6. SearchBracketed'  BY DEF SearchBracketed
  <1>7. Hole'             BY DEF Hole
  <1> QED  BY <1>1, <1>2, <1>3, <1>5, <1>6, <1>7

(* Opening a place at the end.                                             *)
LEMMA OpenInv ==
  ASSUME IInv, OpenPlace
  PROVE  IInv'
  <1> USE CapacityAssumption DEF IInv, OpenPlace, Missing, bounds, HasRoom
  <1>1. TableTypeOK'           BY DEF TableTypeOK, Control
  <1>2. Control'          BY DEF Control
  <1>3. Bounds'           BY DEF Bounds, TableTypeOK
  <1>4. Used' = Used      BY DEF Used, TableTypeOK, Index
  <1>5. Sorted'           BY <1>4 DEF Sorted
  <1>6. SearchBracketed'  BY DEF SearchBracketed
  <1>7. Hole'             BY <1>4 DEF Hole, SearchBracketed, Bounds, TableTypeOK, Used, Index
  <1> QED  BY <1>1, <1>2, <1>3, <1>5, <1>6, <1>7

(* Moving the hole of an addition down by one.                             *)
LEMMA ShiftUpInv ==
  ASSUME IInv, ShiftUp
  PROVE  IInv'
  <1> USE CapacityAssumption, CodeAddressAssumption DEF IInv, ShiftUp, MustShift, bounds, HasRoom
  <1>1. j \in Index /\ j - 1 \in Index /\ j - 1 \in Used
        BY DEF TableTypeOK, Index, Bounds, Used
  <1>2. TableTypeOK'           BY <1>1 DEF TableTypeOK, Index
  <1>3. Control'          BY DEF Control
  <1>4. Bounds'           BY DEF Bounds, TableTypeOK
  <1>5. /\ breakpoints'[j] = breakpoints[j - 1]
        /\ \A k \in Index : k # j => breakpoints'[k] = breakpoints[k]
        BY <1>1 DEF TableTypeOK
  <1>6. Used' = (Used \cup {j}) \ {j - 1}
        BY <1>1 DEF Used, Bounds, TableTypeOK, Index
  <1>7. Sorted'           BY <1>1, <1>5, <1>6 DEF Sorted, Used, Index, TableTypeOK
  <1>8. SearchBracketed'  BY DEF SearchBracketed
  <1>9. Hole'             BY <1>1, <1>5, <1>6 DEF Hole, Used, Index, TableTypeOK
  <1> QED  BY <1>2, <1>3, <1>4, <1>7, <1>8, <1>9

(* Filling the hole.                                                       *)
LEMMA FillInv ==
  ASSUME IInv, FillPlace
  PROVE  IInv'
  <1> USE CapacityAssumption, CodeAddressAssumption
          DEF IInv, FillPlace, MustShift, Return, bounds, HasRoom
  <1>1. j \in Index
        BY DEF TableTypeOK, Index, Bounds
  <1>2. TableTypeOK'           BY <1>1 DEF TableTypeOK, Index
  <1>3. Control'          BY DEF Control
  <1>4. Bounds'           BY DEF Bounds, TableTypeOK
  <1>5. /\ breakpoints'[j] = address
        /\ \A k \in Index : k # j => breakpoints'[k] = breakpoints[k]
        BY <1>1 DEF TableTypeOK
  <1>6. Used' = Used \cup {j} /\ j \notin Used
        BY <1>1 DEF Used, Bounds, TableTypeOK, Index
  <1>7. \A k \in Used : /\ k < j => breakpoints[k] < address
                        /\ k > j => breakpoints[k] > address
    <2> SUFFICES ASSUME NEW k \in Used, k < j PROVE breakpoints[k] < address
        BY DEF Hole
    <2>1. k \in Index /\ j > 0
          BY <1>1 DEF Used, Index
    <2>2. j - 1 \in Used
          BY <1>1, <2>1 DEF Used, Index, Bounds, TableTypeOK
    <2>3. breakpoints[j - 1] \in Nat /\ breakpoints[k] \in Nat /\ address \in Nat
          BY <2>1, <2>2, EntryIsNumber DEF Used
    <2>4. breakpoints[j - 1] < address
          BY <2>1, <2>2, <2>3 DEF Hole
    <2>5. k = j - 1 \/ breakpoints[k] < breakpoints[j - 1]
          BY <2>1, <2>2, <1>1 DEF Sorted, Index
    <2> QED  BY <2>3, <2>4, <2>5
  <1>8. Sorted'           BY <1>1, <1>5, <1>6, <1>7 DEF Sorted, Used, Index, TableTypeOK
  <1>9. SearchBracketed'  BY DEF SearchBracketed
  <1>10. Hole'            BY DEF Hole
  <1> QED  BY <1>2, <1>3, <1>4, <1>8, <1>9, <1>10

(* Opening the hole of a removal.                                          *)
LEMMA CloseInv ==
  ASSUME IInv, ClosePlace
  PROVE  IInv'
  <1> USE CapacityAssumption, CodeAddressAssumption DEF IInv, ClosePlace, Found, bounds, HasRoom
  <1>1. middle \in Nat /\ begin <= middle /\ middle < end
        BY MiddleBetween DEF TableTypeOK
  <1>2. TableTypeOK'           BY <1>1 DEF TableTypeOK, Bounds
  <1>3. Control'          BY DEF Control
  <1>4. Bounds'           BY <1>1 DEF Bounds, TableTypeOK
  <1>5. Used' = Used \ {middle} /\ middle \in Used
        BY <1>1 DEF Used, TableTypeOK, Index, Bounds
  <1>6. Sorted'           BY <1>5 DEF Sorted
  <1>7. SearchBracketed'  BY DEF SearchBracketed
  <1>8. Hole'             BY <1>1, <1>5 DEF Hole, Sorted, TableTypeOK, Used, Index
  <1> QED  BY <1>2, <1>3, <1>4, <1>6, <1>7, <1>8

(* Moving the hole of a removal up by one.                                 *)
LEMMA ShiftDownInv ==
  ASSUME IInv, ShiftDown
  PROVE  IInv'
  <1> USE CapacityAssumption, CodeAddressAssumption DEF IInv, ShiftDown, bounds, HasRoom
  <1>1. j \in Index /\ j + 1 \in Index /\ j + 1 \in Used
        BY DEF TableTypeOK, Index, Bounds, Used
  <1>2. TableTypeOK'           BY <1>1 DEF TableTypeOK, Index
  <1>3. Control'          BY DEF Control
  <1>4. Bounds'           BY DEF Bounds, TableTypeOK
  <1>5. /\ breakpoints'[j] = breakpoints[j + 1]
        /\ \A k \in Index : k # j => breakpoints'[k] = breakpoints[k]
        BY <1>1 DEF TableTypeOK
  <1>6. Used' = (Used \cup {j}) \ {j + 1}
        BY <1>1 DEF Used, Bounds, TableTypeOK, Index
  <1>7. Sorted'           BY <1>1, <1>5, <1>6 DEF Sorted, Used, Index, TableTypeOK
  <1>8. SearchBracketed'  BY DEF SearchBracketed
  <1>9. Hole'             BY <1>1, <1>5, <1>6 DEF Hole, Used, Index, TableTypeOK
  <1> QED  BY <1>2, <1>3, <1>4, <1>7, <1>8, <1>9

(* The hole has reached the end.                                           *)
LEMMA FinishInv ==
  ASSUME IInv, FinishRemove
  PROVE  IInv'
  <1> USE DEF IInv, FinishRemove, Return, table, bounds
  <1>1. TableTypeOK'           BY DEF TableTypeOK
  <1>2. Control'          BY DEF Control
  <1>3. Bounds'           BY DEF Bounds
  <1>4. Used' = Used      BY DEF Used, Bounds, TableTypeOK, Index
  <1>5. Sorted'           BY <1>4 DEF Sorted
  <1>6. SearchBracketed'  BY DEF SearchBracketed
  <1>7. Hole'             BY DEF Hole
  <1> QED  BY <1>1, <1>2, <1>3, <1>5, <1>6, <1>7

(* Every step keeps the invariant.                                         *)
LEMMA StepInv == IInv /\ [TableNext]_tableVars => IInv'
  <1> SUFFICES ASSUME IInv, [TableNext]_tableVars PROVE IInv'
      OBVIOUS
  <1>1. CASE \E a \in CodeAddress : \/ StartAdd(a) \/ RefuseAdd(a)
                                \/ Start("remove", a) \/ Start("lookup", a)
        BY <1>1, StartInv
  <1>2. CASE Progress
        BY <1>2, SearchInv, ReturnInv, OpenInv, ShiftUpInv, FillInv, CloseInv, ShiftDownInv,
           FinishInv
        DEF Progress
  <1>3. CASE UNCHANGED tableVars
        BY <1>3 DEF tableVars, IInv, TableTypeOK, Control, Bounds, Sorted, SearchBracketed, Hole,
                    Used, HasRoom
  <1> QED  BY <1>1, <1>2, <1>3 DEF TableNext

(* Every state of the table satisfies the invariant.                       *)
THEOREM Invariant == TableSpec => []IInv
  BY InitInv, StepInv, PTL DEF TableSpec

(* The indices of the loops stay in the array and the number of entries    *)
(* within its size (src/gdb_protocol.c lines 60-106).                      *)
THEOREM TypeCorrect == TableSpec => []TableTypeOK
  <1>1. IInv => TableTypeOK
        BY DEF IInv
  <1> QED  BY <1>1, Invariant, PTL

(* The entries are strictly increasing at every iteration of every loop.   *)
THEOREM AlwaysSorted == TableSpec => []Sorted
  <1>1. IInv => Sorted
        BY DEF IInv
  <1> QED  BY <1>1, Invariant, PTL

(* The binary search never gives up the part of the table that holds the   *)
(* address.                                                                *)
THEOREM AlwaysBracketed == TableSpec => []SearchBracketed
  <1>1. IInv => SearchBracketed
        BY DEF IInv
  <1> QED  BY <1>1, Invariant, PTL
-----------------------------------------------------------------------------
(* The refinement.  Entries holds as many addresses as there are places in *)
(* use, because they are distinct.                                         *)
Values == {breakpoints[k] : k \in Used}

(* As many addresses as positions in use: the entries differ.              *)
LEMMA ValuesCount ==
  ASSUME IInv
  PROVE  IsFiniteSet(Values) /\ Cardinality(Values) = Cardinality(Used)
  <1> DEFINE f == [k \in Used |-> breakpoints[k]]
  <1>1. IsFiniteSet(Used)
    <2>1. IsFiniteSet(Index)
          BY CapacityAssumption, FS_Interval DEF Index
    <2> QED  BY <2>1, FS_Subset DEF Used
  <1>2. \A k, l \in Used : k # l => breakpoints[k] # breakpoints[l]
    <2> SUFFICES ASSUME NEW k \in Used, NEW l \in Used, k < l
                 PROVE  breakpoints[k] # breakpoints[l]
        BY DEF Used, Index
    <2>1. breakpoints[k] < breakpoints[l] /\ breakpoints[k] \in Nat /\ breakpoints[l] \in Nat
          BY EntryIsNumber DEF IInv, Sorted, Used
    <2> QED  BY <2>1
  <1>3. f \in Bijection(Used, Values)
        BY <1>2 DEF Bijection, Injection, Surjection, IsInjective, Values
  <1>4. ExistsBijection(Used, Values)
        BY <1>3 DEF ExistsBijection
  <1> QED  BY <1>1, <1>4, FS_Bijection

(* The length the code keeps is the size of the set.                       *)
LEMMA EntriesCount ==
  ASSUME IInv
  PROVE  /\ loop \in {"search", "none"} => Cardinality(Entries) = breakpoints_number
         /\ loop = "up" => Cardinality(Entries) = breakpoints_number - 1
  <1> DEFINE All == 0 .. (breakpoints_number - 1)
  <1>1. IsFiniteSet(All) /\ Cardinality(All) = breakpoints_number
        BY FS_Interval DEF IInv, TableTypeOK
  <1>2. CASE loop \in {"search", "none"}
    <2>1. Used = All /\ Entries = Values
          BY <1>2, CapacityAssumption DEF Used, Index, IInv, TableTypeOK, Entries, Values
    <2> QED  BY <1>1, <1>2, <2>1, ValuesCount
  <1>3. CASE loop = "up"
    <2>1. Used = All \ {j} /\ Entries = Values
          BY <1>3, CapacityAssumption DEF Used, Index, IInv, TableTypeOK, Entries, Values
    <2>2. j \in All
          BY <1>3 DEF IInv, Bounds, TableTypeOK
    <2>3. Cardinality(Used) = breakpoints_number - 1
          BY <1>1, <2>1, <2>2, FS_RemoveElement
    <2> QED  BY <1>3, <2>1, <2>3, ValuesCount
  <1> QED  BY <1>2, <1>3

(* What a search says about the set.                                       *)
LEMMA SearchTells ==
  ASSUME IInv
  PROVE  /\ Found => address \in Entries
         /\ Missing => address \notin Entries
  <1>1. ASSUME Found PROVE address \in Entries
    <2>1. middle \in Nat /\ begin <= middle /\ middle < end
          BY <1>1, MiddleBetween DEF Found, IInv, TableTypeOK
    <2>2. middle \in Used
          BY <1>1, <2>1, CapacityAssumption DEF Found, Used, Index, IInv, TableTypeOK, Bounds
    <2> QED  BY <1>1, <2>2 DEF Found, Entries
  <1>2. ASSUME Missing PROVE address \notin Entries
    <2>1. \A k \in Used : breakpoints[k] = address => begin <= k /\ k < end
          BY <1>2 DEF Missing, IInv, SearchBracketed
    <2>2. \A k \in Used : breakpoints[k] # address
          BY <1>2, <2>1 DEF Missing, IInv, TableTypeOK, Used, Index
    <2> QED  BY <1>2, <2>2 DEF Missing, Entries
  <1> QED  BY <1>1, <1>2

(* Moving the hole leaves the set as it is.                                *)
LEMMA ShiftsStutter ==
  ASSUME IInv, OpenPlace \/ ShiftUp \/ ClosePlace \/ ShiftDown
  PROVE  Entries' = Entries /\ answer' = answer
  <1> USE CapacityAssumption DEF IInv
  <1>1. CASE OpenPlace
    <2>1. Used' = Used
          BY <1>1 DEF OpenPlace, Missing, Used, TableTypeOK, Index
    <2> QED  BY <1>1, <2>1 DEF OpenPlace, Missing, Entries
  <1>2. CASE ShiftUp
    <2>1. j \in Index /\ j - 1 \in Index /\ j - 1 \in Used /\ j \notin Used
          BY <1>2 DEF ShiftUp, MustShift, TableTypeOK, Index, Bounds, Used
    <2>2. Used' = (Used \ {j - 1}) \cup {j}
          BY <1>2, <2>1 DEF ShiftUp, MustShift, Used, Bounds, TableTypeOK, Index
    <2>3. /\ breakpoints'[j] = breakpoints[j - 1]
          /\ \A k \in Index : k # j => breakpoints'[k] = breakpoints[k]
          BY <1>2, <2>1 DEF ShiftUp, TableTypeOK
    <2>4. Values' = Values
          BY <2>1, <2>2, <2>3 DEF Values, Used
    <2> QED  BY <1>2, <2>4 DEF ShiftUp, Entries, Values
  <1>3. CASE ClosePlace
    <2>1. middle \in Nat /\ begin <= middle /\ middle < end
          BY <1>3, MiddleBetween DEF ClosePlace, Found, TableTypeOK
    <2>2. Used' = Used \ {middle} /\ middle \in Used
          BY <1>3, <2>1 DEF ClosePlace, Found, Used, TableTypeOK, Index, Bounds
    <2> QED  BY <1>3, <2>2 DEF ClosePlace, Found, Entries
  <1>4. CASE ShiftDown
    <2>1. j \in Index /\ j + 1 \in Index /\ j + 1 \in Used /\ j \notin Used
          BY <1>4 DEF ShiftDown, TableTypeOK, Index, Bounds, Used
    <2>2. Used' = (Used \ {j + 1}) \cup {j}
          BY <1>4, <2>1 DEF ShiftDown, Used, Bounds, TableTypeOK, Index
    <2>3. /\ breakpoints'[j] = breakpoints[j + 1]
          /\ \A k \in Index : k # j => breakpoints'[k] = breakpoints[k]
          BY <1>4, <2>1 DEF ShiftDown, TableTypeOK
    <2>4. Values' = Values
          BY <2>1, <2>2, <2>3 DEF Values, Used
    <2> QED  BY <1>4, <2>4 DEF ShiftDown, Entries, Values
  <1> QED  BY <1>1, <1>2, <1>3, <1>4

(* The instance counts as this module does.                                *)
LEMMA SameCardinality == \A S : BreakpointSet!Cardinality(S) = Cardinality(S)
  BY DEF Cardinality, BreakpointSet!Cardinality

(* Filling the hole adds the address; the last step of a removal takes it  *)
(* out.                                                                    *)
LEMMA FillAdds ==
  ASSUME IInv, FillPlace
  PROVE  BreakpointSet!Add(address)
  <1> USE CapacityAssumption DEF IInv
  <1>1. j \in Index
        BY DEF FillPlace, TableTypeOK, Index, Bounds
  <1>2. Used' = Used \cup {j} /\ j \notin Used
        BY <1>1 DEF FillPlace, MustShift, Return, Used, Bounds, TableTypeOK, Index
  <1>3. /\ breakpoints'[j] = address
        /\ \A k \in Index : k # j => breakpoints'[k] = breakpoints[k]
        BY <1>1 DEF FillPlace, TableTypeOK
  <1>4. Values' = Values \cup {address}
        BY <1>2, <1>3 DEF Values, Used
  <1>5. Entries = Values /\ Entries' = Values' /\ answer' = TRUE
        BY DEF FillPlace, Return, Entries, Values
  <1>6. Cardinality(Entries) < MAX_BREAKPOINTS_NUMBER
        BY EntriesCount DEF FillPlace, TableTypeOK
  <1> QED  BY <1>4, <1>5, <1>6, SameCardinality DEF BreakpointSet!Add

(* The end of a removal takes the address out of the set.                  *)
LEMMA FinishRemoves ==
  ASSUME IInv, FinishRemove
  PROVE  BreakpointSet!Remove(address)
  <1> USE DEF IInv
  <1>1. Used' = Used
        BY DEF FinishRemove, Return, table, Used, Bounds, TableTypeOK, Index
  <1>2. Entries = Values \cup {address} /\ Entries' = Values /\ answer' = TRUE
        BY <1>1 DEF FinishRemove, Return, table, Entries, Values
  <1>3. address \notin Values
        BY DEF FinishRemove, Hole, Values
  <1> QED  BY <1>2, <1>3 DEF BreakpointSet!Remove

(* A call that leaves the table alone answers as the set would.            *)
LEMMA ReturnAnswers ==
  ASSUME IInv, FoundReturn \/ MissingReturn
  PROVE  \/ BreakpointSet!Add(address) \/ BreakpointSet!Remove(address)
         \/ BreakpointSet!Lookup(address)
  <1> USE DEF IInv
  <1>1. Used' = Used /\ Entries' = Entries
        BY DEF FoundReturn, MissingReturn, Found, Missing, Return, table, Used, Entries
  <1>2. CASE FoundReturn
    <2>1. address \in Entries /\ answer' = TRUE
          BY <1>2, SearchTells DEF FoundReturn, Return
    <2>2. CASE call = "add"
      <3>1. Cardinality(Entries) < MAX_BREAKPOINTS_NUMBER
            BY <1>2, <2>2, EntriesCount DEF FoundReturn, Found, Control, HasRoom
      <3> QED  BY <1>1, <2>1, <3>1, SameCardinality DEF BreakpointSet!Add
    <2>3. CASE call = "lookup"
          BY <1>1, <2>1 DEF BreakpointSet!Lookup
    <2> QED  BY <1>2, <2>2, <2>3 DEF FoundReturn
  <1>3. CASE MissingReturn
    <2>1. address \notin Entries /\ answer' = FALSE
          BY <1>3, SearchTells DEF MissingReturn, Return
    <2>2. (address \in Entries) = FALSE
          BY <2>1
    <2>3. answer' = (address \in Entries)
          BY <2>1, <2>2
    <2>4. BreakpointSet!Lookup(address)
          BY <1>1, <2>3 DEF BreakpointSet!Lookup
    <2> QED  BY <2>4
  <1> QED  BY <1>2, <1>3

(* A refused addition found the set full.                                  *)
LEMMA RefuseAnswers ==
  ASSUME IInv, NEW a \in CodeAddress, RefuseAdd(a)
  PROVE  BreakpointSet!Add(a)
  <1> USE DEF IInv
  <1>1. loop = "none" /\ breakpoints_number = MAX_BREAKPOINTS_NUMBER
        BY CapacityAssumption DEF RefuseAdd, Control, HasRoom, TableTypeOK
  <1>2. Used' = Used /\ Entries' = Entries /\ answer' = FALSE
        BY <1>1 DEF RefuseAdd, table, Used, Entries
  <1>3. ~(Cardinality(Entries) < MAX_BREAKPOINTS_NUMBER)
        BY <1>1, EntriesCount, CapacityAssumption
  <1> QED  BY <1>2, <1>3, SameCardinality DEF BreakpointSet!Add

(* A step of the table is a step of the set or changes nothing of it.      *)
LEMMA StepRefines ==
  ASSUME IInv, [TableNext]_tableVars
  PROVE  [BreakpointSet!Next]_(BreakpointSet!vars)
  <1>0. address \in CodeAddress
        BY DEF IInv, TableTypeOK
  <1>1. CASE \E a \in CodeAddress : StartAdd(a) \/ Start("remove", a) \/ Start("lookup", a)
    <2>1. Used' = Used /\ loop' = "search" /\ loop = "none"
          BY <1>1 DEF IInv, Control, StartAdd, Start, table, Used
    <2>2. Entries' = Entries /\ answer' = answer
          BY <1>1, <2>1 DEF StartAdd, Start, table, Entries
    <2> QED  BY <2>2 DEF BreakpointSet!vars
  <1>2. CASE \E a \in CodeAddress : RefuseAdd(a)
        BY <1>2, RefuseAnswers DEF BreakpointSet!Next
  <1>3. CASE SearchBelow \/ SearchAbove
    <2>1. Used' = Used
          BY <1>3 DEF SearchBelow, SearchAbove, table, Used
    <2> QED  BY <1>3, <2>1 DEF SearchBelow, SearchAbove, table, Entries, BreakpointSet!vars
  <1>4. CASE FoundReturn \/ MissingReturn
        BY <1>0, <1>4, ReturnAnswers DEF BreakpointSet!Next
  <1>5. CASE OpenPlace \/ ShiftUp \/ ClosePlace \/ ShiftDown
        BY <1>5, ShiftsStutter DEF BreakpointSet!vars
  <1>6. CASE FillPlace \/ FinishRemove
        BY <1>0, <1>6, FillAdds, FinishRemoves DEF BreakpointSet!Next
  <1>7. CASE UNCHANGED tableVars
        BY <1>7 DEF tableVars, Entries, Used, BreakpointSet!vars
  <1> QED  BY <1>1, <1>2, <1>3, <1>4, <1>5, <1>6, <1>7 DEF TableNext, Progress

(* The sorted array behaves as a bounded set of addresses, whatever        *)
(* sequence of insertions, removals and lookups is made of it              *)
(* (src/gdb_protocol.c lines 60-106).                                      *)
THEOREM TableImplementsSet == TableSpec => ImplementsSet
  <1>1. TableInit => BreakpointSet!Init
    <2> SUFFICES ASSUME TableInit PROVE BreakpointSet!Init
        OBVIOUS
    <2>1. Used = {}
          BY CapacityAssumption DEF TableInit, Used, Index
    <2> QED  BY <2>1 DEF TableInit, Entries, BreakpointSet!Init
  <1>2. IInv /\ [TableNext]_tableVars => [BreakpointSet!Next]_(BreakpointSet!vars)
        BY StepRefines
  <1> QED  BY <1>1, <1>2, Invariant, PTL DEF TableSpec, ImplementsSet, BreakpointSet!Spec
=============================================================================
