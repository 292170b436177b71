------------------------------- MODULE Options -------------------------------
(***************************************************************************)
(* What a command line asks for and what it gets: main's option loop       *)
(* (src/arm_simulator.c), the trace flags (trace_add, src/trace.c), the    *)
(* mode names (src/arm_constants.c) and the table of debugged files        *)
(* (src/debug.c), which insertions keep sorted and lookups search by       *)
(* halves.                                                                 *)
(*                                                                         *)
(* A word of the command line is its text and the option in it, with the   *)
(* argument attached to it if there is one.  getopt_long belongs to the    *)
(* C library; it is modelled by the use main makes of it.                  *)
(***************************************************************************)
EXTENDS Integers, Sequences, SequencesExt

CONSTANTS Words,            \* words of a command line
          MaxWords,         \* bound on their number
          Texts,            \* texts of words, in the order of strcmp
          atoi,             \* the number a text is read as
          MAX_FILES_NUMBER, \* 64
          Unset             \* no argument: optarg is NULL

Text    == Range(Texts)
Letters == {"g", "i", "h", "t", "r", "m", "s", "p", "d"}       \* of the option tables

(* The strings of the two option tables: some options take an argument.    *)
LongTakes == {"g", "i", "t", "s", "d"}

ShortTakes == {"g", "i", "t", "d"}

Takes(w) == \/ w.form = "long" /\ w.opt \in LongTakes
            \/ w.form = "short" /\ w.opt \in ShortTakes

(* A word is an option exactly if it starts with a dash, and then one of   *)
(* those of the option tables; an argument is attached to those that take  *)
(* one only.                                                               *)
ASSUME OptionsAssumption ==
    /\ MaxWords \in Nat /\ MAX_FILES_NUMBER \in Nat \ {0}
    /\ Texts \in Seq(Text) /\ IsInjective(Texts)
    /\ atoi \in [Text -> Int]
    /\ Unset \notin Text /\ Unset \notin Letters
    /\ Words \subseteq [form : {"long", "short", "word"}, text : Text,
                       opt : Letters \cup {Unset}, arg : Text \cup {Unset}]
    /\ \A w \in Words : /\ w.form = "word" <=> w.opt = Unset
                        /\ w.arg # Unset => Takes(w)

VARIABLES argv,             \* the words left
          given,            \* the whole command line
          trace_flags,      \* of "registers", "memory", "state", "position"
          states,           \* modes whose registers trace_arm_state prints
          debugged_files,   \* the table
          gdb_port, irq_port,
          trace_file,       \* Unset: stdout
          outcome           \* "options", "runs", "usage", "help", "no file"
                            \* or "undefined", once nothing is known

traced == <<trace_flags, states>>
ports  == <<gdb_port, irq_port>>
chosen == <<traced, debugged_files, ports, trace_file>>
settings == <<argv, given, chosen, outcome>>

-----------------------------------------------------------------------------
(* optarg, and the words left after the option.                            *)
optarg(w, rest) == IF ~Takes(w) THEN Unset
                   ELSE IF w.arg # Unset THEN w.arg ELSE Head(rest).text
Left(w, rest) == IF Takes(w) /\ w.arg = Unset THEN Tail(rest) ELSE rest
Incomplete(w, rest) == Takes(w) /\ w.arg = Unset /\ rest = <<>>

-----------------------------------------------------------------------------
(* src/debug.c                                                             *)
Rank(f) == CHOOSE i \in DOMAIN Texts : Texts[i] = f
Before(f, g) == Rank(f) < Rank(g)

(* The first entry that does not come before name, or the end.             *)
\* mutant: names are added at the end
MutantPlace(table, name) == Len(table) + 1
Place(table, name) == LET i == SelectInSeq(table, LAMBDA f : ~Before(f, name))
                      IN  IF i = 0 THEN Len(table) + 1 ELSE i

(* No place: the name is dropped.  A place in a full table: the last entry *)
(* is moved past its end.                                                  *)
Dropped(table, name) == Place(table, name) > MAX_FILES_NUMBER
Overflows(table, name) == ~Dropped(table, name) /\ Len(table) = MAX_FILES_NUMBER

add_debug_to(table, name) ==
    IF Dropped(table, name) THEN table ELSE InsertAt(table, Place(table, name), name)

(* The answer of the search between from and to, 0-based.                  *)
Middle(from, to) == (from + to) \div 2

Halves(f, table, name, from, to) ==
    LET middle == Middle(from, to)
    IN  IF from >= to THEN from = to /\ table[from + 1] = name
        ELSE IF Before(table[middle + 1], name) THEN f[<<middle + 1, to>>]
        ELSE IF Before(name, table[middle + 1]) THEN f[<<from, middle - 1>>]
        ELSE TRUE

Search(table, name) ==
    LET f[s \in (0 .. Len(table)) \X (-1 .. Len(table) - 1)] ==
          Halves(f, table, name, s[1], s[2])
    IN  f[<<0, Len(table) - 1>>]

is_debugged(table, name) == Search(table, name)

-----------------------------------------------------------------------------
(* src/arm_constants.c, src/trace.c                                        *)
ModeNames == {"USR", "FIQ", "IRQ", "SVC", "ABT", "UND", "SYS"}
arm_get_mode_number(name) == IF name \in ModeNames THEN name ELSE "-1"

TraceState(mode) == /\ trace_flags' = IF mode = "-1" THEN trace_flags ELSE trace_flags \cup {"state"}
                    /\ states' = states \cup ({mode} \ {"-1"})

TraceFlag == [r |-> "registers", m |-> "memory", p |-> "position"]

-----------------------------------------------------------------------------
(* in_port_t has 16 bits.                                                  *)
Port(text) == atoi[text] % 65536

-----------------------------------------------------------------------------
OptionsInit == /\ argv = <<>> /\ given = <<>> /\ trace_flags = {} /\ states = {}
               /\ debugged_files = <<>> /\ gdb_port = 0 /\ irq_port = 0
               /\ trace_file = Unset /\ outcome = "shell"

Start(line) == /\ argv' = line /\ given' = line /\ outcome' = "options"
               /\ UNCHANGED chosen

First == Head(argv)
Rest == Tail(argv)
Argument == optarg(First, Rest)

(* The option at the front, with what it needs, is taken.                  *)
Option(o) == /\ outcome = "options" /\ argv # <<>> /\ First.opt = o
             /\ ~Incomplete(First, Rest)
             /\ argv' = Left(First, Rest)
             /\ UNCHANGED given

Traced == \E o \in DOMAIN TraceFlag :
            /\ Option(o)
            /\ trace_flags' = trace_flags \cup {TraceFlag[o]}
            /\ UNCHANGED <<states, debugged_files, ports, trace_file, outcome>>

(* strcmp is given optarg as it is.                                        *)
TracedState ==
    /\ Option("s")
    /\ IF Argument = Unset
       THEN outcome' = "undefined" /\ UNCHANGED traced
       ELSE TraceState(arm_get_mode_number(Argument)) /\ UNCHANGED outcome
    /\ UNCHANGED <<debugged_files, ports, trace_file>>

Debugged ==
    /\ Option("d")
    /\ IF Overflows(debugged_files, Argument)
       THEN outcome' = "undefined" /\ UNCHANGED debugged_files
       ELSE /\ debugged_files' = add_debug_to(debugged_files, Argument)
            /\ UNCHANGED outcome
    /\ UNCHANGED <<traced, ports, trace_file>>

(* fopen opens the file or the program ends.                               *)
TraceFile == /\ Option("t")
             /\ \/ trace_file' = Argument /\ UNCHANGED outcome
                \/ outcome' = "no file" /\ UNCHANGED trace_file
             /\ UNCHANGED <<traced, debugged_files, ports>>

\* mutant: the ports exchanged
MutantGdbPort == /\ Option("g")
                 /\ irq_port' = Port(Argument)
                 /\ UNCHANGED <<traced, debugged_files, gdb_port, trace_file, outcome>>

GdbPort == /\ Option("g")
           /\ gdb_port' = Port(Argument)
           /\ UNCHANGED <<traced, debugged_files, irq_port, trace_file, outcome>>

IrqPort == /\ Option("i")
           /\ irq_port' = Port(Argument)
           /\ UNCHANGED <<traced, debugged_files, gdb_port, trace_file, outcome>>

Help == Option("h") /\ outcome' = "help" /\ UNCHANGED chosen

(* An option without the argument it takes.                                *)
Usage == /\ outcome = "options" /\ argv # <<>> /\ Incomplete(First, Rest)
         /\ outcome' = "usage"
         /\ UNCHANGED <<argv, given, chosen>>

(* getopt_long passes over the words that are not options.                 *)
Skip == /\ outcome = "options" /\ argv # <<>> /\ First.form = "word"
        /\ argv' = Rest
        /\ UNCHANGED <<given, chosen, outcome>>

Simulate == /\ outcome = "options" /\ argv = <<>>
            /\ outcome' = "runs"
            /\ UNCHANGED <<argv, given, chosen>>

OptionsNext ==
    \/ outcome = "shell" /\ \E line \in SeqOf(Words, MaxWords) : Start(line)
    \/ Traced \/ TracedState \/ Debugged \/ TraceFile \/ GdbPort \/ IrqPort
    \/ Help \/ Usage \/ Skip \/ Simulate

OptionsSpec == OptionsInit /\ [][OptionsNext]_settings

-----------------------------------------------------------------------------
(* What a line asks for, by the usage text (src/arm_simulator.c lines      *)
(* 113-125) and not by the option tables: an argument belongs to           *)
(* --gdb-port, --irq-port, --trace-file and --debug, and to no other; one  *)
(* that is not attached is the next word, whatever that is.  A short       *)
(* option asks what its long form does.                                    *)
Described == {"g", "i", "t", "d"}

(* The options of which the last one counts.                               *)
Single == {"g", "i", "t"}

NothingAsked == [asked |-> {}, last |-> [o \in Single |-> Unset], waits |-> Unset]

Asking(before, o, a) == [asked |-> before.asked \cup {<<o, a>>},
                         last  |-> [k \in Single |-> IF k = o THEN a ELSE before.last[k]],
                         waits |-> Unset]

Read(w, before) ==
    IF before.waits # Unset THEN Asking(before, before.waits, w.text)
    ELSE IF w.form = "word" THEN before
    ELSE IF w.opt \in Described /\ w.arg = Unset THEN [before EXCEPT !.waits = w.opt]
    ELSE Asking(before, w.opt, w.arg)

Reading(line) ==
    LET read[i \in 0 .. Len(line)] ==
          IF i = 0 THEN NothingAsked ELSE Read(line[i], read[i - 1])
    IN  read

Asked(line) == Reading(line)[Len(line)].asked
LastAsked(o, line) == Reading(line)[Len(line)].last[o]

PortAsked(o, line) == IF LastAsked(o, line) = Unset THEN 0 ELSE Port(LastAsked(o, line))

(* The one form on which the usage text and the option tables disagree:    *)
(* --trace-state with nothing attached, or its short form.                 *)
Bare(w) == w.opt = "s" /\ w.arg = Unset
AsInUsage(line) == \A i \in DOMAIN line : ~Bare(line[i])

(* What the simulator runs with is what the line asks for, whatever the    *)
(* order, repetitions and words between the options, on every line where   *)
(* the usage text and the option tables agree on which words are           *)
(* arguments.  The search finds a file of the table exactly when it was    *)
(* named, until the table is full (src/debug.c lines 33-64); the modes     *)
(* printed are those named, unknown ones left out, and the state is traced *)
(* exactly when there is one (src/trace.c lines 154-163,                   *)
(* src/arm_constants.c lines 59-64); registers, memory and positions are   *)
(* traced exactly when asked for; each server's port and the trace file    *)
(* are the last ones given, or 0 and stdout (src/arm_simulator.c lines     *)
(* 153-200).                                                               *)
SettingsMatchLine ==
    outcome = "runs" /\ AsInUsage(given) =>
        /\ \A name \in Text :
              /\ is_debugged(debugged_files, name) => <<"d", name>> \in Asked(given)
              /\ Len(debugged_files) < MAX_FILES_NUMBER =>
                   (<<"d", name>> \in Asked(given) => is_debugged(debugged_files, name))
        /\ states = {m \in ModeNames : <<"s", m>> \in Asked(given)}
        /\ "state" \in trace_flags <=> states # {}
        /\ \A o \in DOMAIN TraceFlag :
              TraceFlag[o] \in trace_flags <=> <<o, Unset>> \in Asked(given)
        /\ gdb_port = PortAsked("g", given) /\ irq_port = PortAsked("i", given)
        /\ trace_file = LastAsked("t", given)

(* On every line, by the usage text: "[ --trace-state ]" takes no argument *)
(* and "outputs the processor state after each instruction"                *)
(* (src/arm_simulator.c lines 115 and 125), and the other trace options    *)
(* trace what they name.                                                   *)
TracesAreAsked ==
    outcome = "runs" =>
        /\ "state" \in trace_flags <=> \E a \in Text \cup {Unset} : <<"s", a>> \in Asked(given)
        /\ \A o \in DOMAIN TraceFlag :
              TraceFlag[o] \in trace_flags <=> <<o, Unset>> \in Asked(given)
=============================================================================
