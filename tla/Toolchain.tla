----------------------------- MODULE Toolchain -----------------------------
(***************************************************************************)
(* A source on its way through the tools: main of vras/src/main.c takes    *)
(* its arguments, reads the input file, calls preprocess (Preprocessor)    *)
(* and assemble (Assembler) on one list of lines, and writes the output    *)
(* file; then vrdisas (Disassembler) lists that file.                      *)
(*                                                                         *)
(* The parts work on state of their own: what preprocess leaves in `head`  *)
(* is what assemble reads, as lines of tokens; what assemble leaves in     *)
(* `buf` becomes the file that the disassembler reads.                     *)
(***************************************************************************)
EXTENDS Integers, SequencesExt

CONSTANTS
    Invocations,     \* the argument lists: argv from argv[1] on
    Writable,        \* the names that a file can be written under
    Vocabulary,      \* the words of the sources: Word of Preprocessor
    File, DirOf, Found, Absolute, Name, BadCharacters, DigitFirst, Empty,
                     \* as there; a file is named by its path
    LabelOf,         \* the words that end in a colon |-> the label
    TokenOf,         \* the other words |-> what they are as operands
    ItemsOf          \* the words between quotes |-> their characters

NoName == "NULL"

VARIABLES argv, arg,              \* arg: the argument main has come to
          input, output,          \* inputFile_name, outputFile_name
          includes,
          phase,                  \* what is running
          exit,                   \* what main of vras has returned, or "crash"
          head, idx, macros, pstatus,
          cur, offset, labels, statements, i, totalSize, buf, astatus,
          written,                \* the content of the output file
          word, listing           \* word: where the disassembler has come to

mainVars  == <<argv, arg, input, output, includes>>
preVars   == <<head, idx, macros, pstatus>>
asmVars   == <<cur, offset, labels, statements, i, totalSize, buf, astatus>>
listVars  == <<word, listing>>
toolVars  == <<mainVars, phase, exit, preVars, asmVars, written, listVars>>

P == INSTANCE Preprocessor WITH
         Word <- Vocabulary, Sources <- {}, Input <- NoName, IncludePaths <- {},
         source <- File[input], status <- pstatus

\* What strtok makes of a line that preprocess has left.  Its own directives are
\* no mnemonics, and a macro without a replacement leaves no token.
Tokens(words) == [n \in 1..Len(words) - 1 |-> TokenOf[words[n + 1]]]

AsmLine(line) ==
    LET words == SelectSeq(line.words, LAMBDA w : w # Empty)
    IN IF line.directive # "" THEN [kind |-> "code", mnemonic |-> "#", args |-> <<>>]
       ELSE IF words = <<>> THEN [kind |-> "blank"]
       ELSE IF words[1] \in DOMAIN LabelOf
       THEN [kind |-> "label", name |-> LabelOf[words[1]]]
       ELSE IF words[1] = "@asciiz"
       THEN [kind |-> "@asciiz", indent |-> 0, items |-> ItemsOf[words[2]]]
       ELSE IF words[1] = "@offset"
       THEN [kind |-> "@offset", args |-> Tokens(words)]
       ELSE [kind |-> "code", mnemonic |-> words[1], args |-> Tokens(words)]

A == INSTANCE Assembler WITH Sources <- {}, status <- astatus,
                             source <- [n \in DOMAIN head |-> AsmLine(head[n])]

D == INSTANCE Disassembler WITH Files <- {}, file <- written, i <- word

-----------------------------------------------------------------------------
Ends(code) == phase' = "ended" /\ exit' = code

\* Where main's loop over the arguments stands.
Option == argv[arg]
Value  == argv[arg + 1]

Help ==
    /\ Option = "-h"
    /\ Ends("0") /\ UNCHANGED mainVars

Second == \/ Option = "-i" /\ input # NoName
          \/ Option = "-o" /\ output # NoName

\* A second -i or -o is refused, whatever follows it.
Repeated ==
    /\ Second
    /\ Ends("1") /\ UNCHANGED mainVars

\* strdup(argv[++i]) behind the last argument; of -I too, as its check for that
\* (argc - i == 0) never holds.
ValueMissing ==
    /\ Option \in {"-i", "-o", "-I"} /\ ~Second
    /\ arg = Len(argv)
    /\ Ends("crash") /\ UNCHANGED mainVars

\* Mutant: the last of several directories is searched first.
TakeValue_Before ==
    /\ arg < Len(argv) /\ ~Second
    /\ \/ Option = "-i"
          /\ input' = Value /\ UNCHANGED <<output, includes>>
       \/ Option = "-o"
          /\ output' = Value /\ UNCHANGED <<input, includes>>
       \/ Option = "-I"
          /\ includes' = <<Value>> \o includes /\ UNCHANGED <<input, output>>
    /\ arg' = arg + 2
    /\ UNCHANGED <<argv, phase, exit>>

TakeValue ==
    /\ arg < Len(argv) /\ ~Second
    /\ \/ Option = "-i"
          /\ input' = Value /\ UNCHANGED <<output, includes>>
       \/ Option = "-o"
          /\ output' = Value /\ UNCHANGED <<input, includes>>
       \/ Option = "-I"
          /\ includes' = Append(includes, Value) /\ UNCHANGED <<input, output>>
    /\ arg' = arg + 2
    /\ UNCHANGED <<argv, phase, exit>>

\* Mutant: the loop does not move on.
Ignored_Stays ==
    /\ Option \notin {"-h", "-i", "-o", "-I"}
    /\ UNCHANGED <<argv, arg, input, output, includes, phase, exit>>

Ignored ==
    /\ Option \notin {"-h", "-i", "-o", "-I"}
    /\ arg' = arg + 1
    /\ UNCHANGED <<argv, input, output, includes, phase, exit>>

ReadOption ==
    /\ phase = "options" /\ arg \in DOMAIN argv
    /\ Help \/ Repeated \/ ValueMissing \/ TakeValue \/ Ignored
    /\ UNCHANGED <<preVars, asmVars, written, listVars>>

\* Both files must be named, and the input readable; its lines become the list.
Start ==
    /\ phase = "options" /\ arg \notin DOMAIN argv
    /\ \/ NoName \in {input, output} /\ Ends("1") /\ UNCHANGED head
       \/ /\ NoName \notin {input, output} /\ input \notin DOMAIN File
          /\ Ends("-1") /\ UNCHANGED head
       \/ /\ NoName \notin {input, output} /\ input \in DOMAIN File
          /\ head' = P!Located(File[input], input)
          /\ phase' = "preprocess" /\ UNCHANGED exit
    /\ UNCHANGED <<mainVars, idx, macros, pstatus, asmVars, written, listVars>>

\* A call that crashes takes main with it.
Outcome(status) ==
    IF status = "crashed" THEN Ends("crash") ELSE UNCHANGED <<phase, exit>>

Preprocess ==
    /\ phase = "preprocess"
    /\ UNCHANGED <<mainVars, asmVars, written, listVars>>
    /\ P!Next
    /\ Outcome(pstatus')

Preprocessed ==
    /\ phase = "preprocess" /\ pstatus = "done"
    /\ phase' = "assemble"
    /\ UNCHANGED <<mainVars, exit, preVars, asmVars, written, listVars>>

Assemble ==
    /\ phase = "assemble"
    /\ UNCHANGED <<mainVars, preVars, written, listVars>>
    /\ A!Next
    /\ Outcome(astatus')

\* fopen may fail, and fwrite is called all the same.
Save ==
    /\ phase = "assemble" /\ astatus = "done"
    /\ IF output \in Writable
       THEN written' = buf /\ exit' = "0" /\ phase' = "disassemble"
       ELSE Ends("crash") /\ UNCHANGED written
    /\ UNCHANGED <<mainVars, preVars, asmVars, listVars>>

Disassemble ==
    /\ phase = "disassemble"
    /\ \/ D!PrintWord /\ UNCHANGED phase
       \/ word >= D!Words /\ phase' = "ended" /\ UNCHANGED <<written, listVars>>
    /\ UNCHANGED <<mainVars, exit, preVars, asmVars>>

Init ==
    /\ argv \in Invocations /\ arg = 1
    /\ input = NoName /\ output = NoName /\ includes = <<>>
    /\ phase = "options" /\ exit = "none"
    /\ head = <<>> /\ idx = 0 /\ macros = <<>> /\ pstatus = "running"
    /\ cur = 1 /\ offset = 0 /\ labels = <<>> /\ statements = <<>>
    /\ i = 1 /\ totalSize = 0 /\ buf = <<>> /\ astatus = "reading"
    /\ written = <<>> /\ word = 0 /\ listing = <<>>

Next == ReadOption \/ Start \/ Preprocess \/ Preprocessed \/ Assemble \/ Save
        \/ Disassemble

\* Each tool is one thread that runs on.
Spec == Init /\ [][Next]_toolVars /\ WF_toolVars(Next)
=============================================================================
