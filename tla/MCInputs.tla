------------------------------ MODULE MCInputs ------------------------------
(***************************************************************************)
(* What the simulator is given, one at a time: an arithmetic instruction   *)
(* (DataProcessing), an instruction to decode (Decode) and the words of a  *)
(* command line (Options).  They share no state: a behaviour is one of a   *)
(* single part, chosen at the start, and the others wait as they began.    *)
(***************************************************************************)
EXTENDS DataProcessing, Decode, Options

VARIABLE part                                       \* the part that moves

-----------------------------------------------------------------------------
(* Lines of four words: the options, long and short, three files and a     *)
(* table of three, modes that exist and one that does not, a port and a    *)
(* number that is none.                                                    *)
Opt(format, t, o, a) == [form |-> format, text |-> t, opt |-> o, arg |-> a]

MCLine == {Opt("long", "--trace-memory", "m", Unset), Opt("long", "--trace-state", "s", Unset),
           Opt("long", "--trace-position", "p", Unset),
           Opt("long", "--trace-state=SVC", "s", "SVC"), Opt("long", "--debug", "d", Unset),
           Opt("long", "--gdb-port=70000", "g", "70000"),
           Opt("short", "-r", "r", Unset), Opt("short", "-s", "s", Unset),
           Opt("short", "-dmemory.c", "d", "memory.c"),
           Opt("short", "-darm_core.c", "d", "arm_core.c"),
           Opt("short", "-t", "t", Unset), Opt("short", "-h", "h", Unset),
           Opt("short", "-i", "i", Unset),
           Opt("word", "USR", Unset, Unset), Opt("word", "SUPERVISOR", Unset, Unset),
           Opt("word", "8080", Unset, Unset), Opt("word", "gdb_protocol.c", Unset, Unset)}

(* In ASCII: the dash, the digits, the capitals, the small letters.        *)
MCTexts == <<"--debug", "--gdb-port=70000", "--trace-memory", "--trace-position",
             "--trace-state", "--trace-state=SVC",
             "-darm_core.c", "-dmemory.c", "-h", "-i", "-r", "-s", "-t", "70000", "8080",
             "SUPERVISOR", "SVC", "USR", "arm_core.c", "gdb_protocol.c", "memory.c">>

MCAtoi == [t \in Text |-> CASE t = "8080" -> 8080 [] t = "70000" -> 70000 [] OTHER -> 0]

-----------------------------------------------------------------------------
MCInit == /\ part \in {"arithmetic", "decode", "options"}
          /\ Init /\ DecodeInit /\ OptionsInit

Arithmetic   == part = "arithmetic" /\ Next /\ UNCHANGED <<part, decoding, settings>>
Decoded      == part = "decode" /\ DecodeNext /\ UNCHANGED <<part, vars, settings>>
CommandLine  == part = "options" /\ OptionsNext /\ UNCHANGED <<part, vars, decoding>>

MCNext == Arithmetic \/ Decoded \/ CommandLine

MCSpec == MCInit /\ [][MCNext]_<<part, vars, decoding, settings>>
=============================================================================
