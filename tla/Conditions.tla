----------------------------- MODULE Conditions -----------------------------
(***************************************************************************)
(* The condition of an instruction, bits 31..28, against the flags of the  *)
(* CPSR: instruction_cond of src/arm_instruction.c.                        *)
(***************************************************************************)

(* The flags, in the order of bits 31..28.                                 *)
Flags == [N : BOOLEAN, Z : BOOLEAN, C : BOOLEAN, V : BOOLEAN]

EQ == 0
NE == 1
HS == 2
LO == 3
MI == 4
PL == 5
VS == 6
VC == 7
HI == 8
LS == 9
GE == 10
LT == 11
GT == 12
LE == 13
AL == 14
\* 15 is no condition

\* mutant: GE and LT look at the sign of the difference only
MutantInstructionCond(code, f) ==
    CASE code = GE -> ~f.N
      [] code = LT -> f.N
      [] OTHER     -> TRUE

instruction_cond(code, f) ==
    CASE code = EQ -> f.Z
      [] code = NE -> ~f.Z
      [] code = HS -> f.C
      [] code = LO -> ~f.C
      [] code = MI -> f.N
      [] code = PL -> ~f.N
      [] code = VS -> f.V
      [] code = VC -> ~f.V
      [] code = HI -> f.C /\ ~f.Z
      [] code = LS -> ~f.C \/ f.Z
      [] code = GE -> f.N = f.V
      [] code = LT -> f.N # f.V
      [] code = GT -> ~f.Z /\ f.N = f.V
      [] code = LE -> f.Z \/ f.N # f.V
      [] code = AL -> TRUE
      [] OTHER     -> FALSE
=============================================================================
