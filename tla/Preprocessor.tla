---------------------------- MODULE Preprocessor ----------------------------
(***************************************************************************)
(* The preprocessor of the assembler: expandMacros and preprocess of       *)
(* vras/src/main.c.  preprocess walks over the list of source lines and    *)
(* rewrites the list under its own feet: every directive removes lines     *)
(* around the index idx, or puts lines there, and moves idx back to match. *)
(*                                                                         *)
(* A line is its directive ("" for any other line), its words and the file *)
(* it comes from.  The list operations used are those of SequenceList,     *)
(* which LinkedList implements.  idx is a size_t: a negative value stands  *)
(* for one that has wrapped around, which is above every length.           *)
(*                                                                         *)
(* A path dir/name is the pair of the two; Found is what the file system   *)
(* has at it.                                                              *)
(***************************************************************************)
EXTENDS Integers, SequencesExt

CONSTANTS Word,            \* the words of a line
          Sources,         \* the line sequences main may read
          Input,           \* the file they are read from
          File,            \* the files that can be read: file |-> lines
          DirOf,           \* file |-> the directory it is in
          Found,           \* <<directory, name>> |-> the readable file there
          Absolute,        \* the names of files that begin with a slash
          IncludePaths,    \* the directories given by -I: sequences of them
          Name,            \* macro names
          BadCharacters,   \* name |-> characters that no name may have in it
          DigitFirst,      \* the names that begin with a digit
          Empty            \* no text: the replacement of a macro without one

\* #include "name" and #include <name>.
Quoted  == "include"
Bracketed == "include<>"
Includes == {Quoted, Bracketed}

Directive ==
    {"", "define", "undef", "ifdef", "ifndef", "else", "endif"} \cup Includes

\* These directives have an operand; "#define " alone is a line like any other.
TextType == {l \in [directive : Directive, words : Seq(Word)] :
                /\ l.directive \in {"define", "undef", "ifdef"} \cup Includes =>
                      l.words # <<>>
                /\ l.directive = "define" => l.words[1] \in Name}

LineType == {l \in [directive : Directive, words : Seq(Word), file : DOMAIN DirOf] :
                [directive |-> l.directive, words |-> l.words] \in TextType}

ASSUME NameAssumption ==
    /\ Name \subseteq Word /\ Empty \in Word
    /\ DigitFirst \subseteq Name
    /\ BadCharacters \in [Name -> Nat]
ASSUME SourceAssumption ==
    /\ Sources \subseteq Seq(TextType)
    /\ \A f \in DOMAIN File : File[f] \in Seq(TextType)
ASSUME FileAssumption ==
    /\ Input \in DOMAIN DirOf /\ DOMAIN File \subseteq DOMAIN DirOf
    /\ \A path \in DOMAIN Found : Found[path] \in DOMAIN File

VARIABLES source, includes,
          head, idx, macros,
          status           \* "running", "done", or "crashed"

vars == <<source, includes, head, idx, macros, status>>

Line(directive, words) == [directive |-> directive, words |-> words]

\* The lines of a text, each with the file it was read from.
Located(text, file) ==
    [i \in DOMAIN text |-> [directive |-> text[i].directive,
                            words |-> text[i].words, file |-> file]]

-----------------------------------------------------------------------------
\* The macros whose name is these words; the loops over macros take the first.
Matching(words) == {i \in DOMAIN macros : <<macros[i].macroName>> = words}

Defined(words) == Matching(words) # {}

\* A name that is no identifier is never looked up as a whole.
Identifier(word) ==
    word \in Name /\ word \notin DigitFirst /\ BadCharacters[word] = 0

findMacro(word) ==
    IF Identifier(word) /\ Defined(<<word>>)
    THEN macros[Min(Matching(<<word>>))].replacement
    ELSE word

\* The list after ll_remove(macros, i) for the macro of that name, if any.
WithoutMacro(words) ==
    IF Defined(words) THEN RemoveAt(macros, Min(Matching(words))) ELSE macros

NotExpanded == {"define", "undef", "ifdef", "ifndef"}

\* Every identifier of the line is replaced once, but for the one behind
\* #define, #undef, #ifdef and #ifndef.  A replacement is not expanded again.
expandMacros(line) ==
    [directive |-> line.directive,
     words |-> [i \in DOMAIN line.words |->
                  IF i = 1 /\ line.directive \in NotExpanded
                  THEN line.words[i] ELSE findMacro(line.words[i])],
     file |-> line.file]

-----------------------------------------------------------------------------
\* The list with its lines from..to (counted from 0) replaced by new ones.
Spliced(from, to, lines) ==
    SubSeq(head, 1, from) \o lines \o SubSeq(head, to + 2, Len(head))

\* Mutant: the line behind is skipped.
Keep_SkipsNext(line) ==
    /\ line.directive \notin NotExpanded \cup Includes
    /\ head' = Spliced(idx, idx, <<line>>)
    /\ idx' = idx + 2
    /\ UNCHANGED <<macros, status>>

\* Lines that are no directive, and #else, #endif and others that preprocess
\* does not know, stay as they are.
Keep(line) ==
    /\ line.directive \notin NotExpanded \cup Includes
    /\ head' = Spliced(idx, idx, <<line>>)
    /\ idx' = idx + 1
    /\ UNCHANGED <<macros, status>>

\* The directories in which dir/name can be read, of those given by -I.
Holding(name) == {i \in DOMAIN includes : <<includes[i], name>> \in DOMAIN Found}

\* A quoted name is looked for in the directory of the file that the line is in,
\* a bracketed one in the directories given by -I, of which the first one that
\* has it counts (resolveRelPath, resolveInIncludes).
PathOf(line) ==
    LET name == line.words[1]
    IN IF line.directive = Quoted
       THEN <<IF name \in Absolute THEN "/" ELSE DirOf[line.file], name>>
       ELSE IF Holding(name) = {} THEN <<>>
       ELSE <<includes[Min(Holding(name))], name>>

\* The assertion of resolveRelPath: the search in the directories given by -I,
\* which the message about a quoted file that is missing makes too, does not
\* take an absolute name.
Asserts(line) ==
    /\ line.words[1] \in Absolute /\ includes # <<>>
    /\ line.directive = Bracketed \/ PathOf(line) \notin DOMAIN Found

IncludeAsserts(line) ==
    /\ line.directive \in Includes /\ Asserts(line)
    /\ status' = "crashed"
    /\ UNCHANGED <<head, idx, macros>>

\* The line gives way to the lines of the file, which are processed next.
Include(line) ==
    /\ line.directive \in Includes /\ ~Asserts(line)
    /\ PathOf(line) \in DOMAIN Found
    /\ LET file == Found[PathOf(line)]
       IN head' = Spliced(idx, idx, Located(File[file], file))
    /\ UNCHANGED <<idx, macros, status>>

\* Mutant: the line stays, and is met again.
IncludeMissing_Again(line) ==
    /\ line.directive \in Includes /\ ~Asserts(line)
    /\ PathOf(line) \notin DOMAIN Found
    /\ UNCHANGED <<head, idx, macros, status>>

IncludeMissing(line) ==
    /\ line.directive \in Includes /\ ~Asserts(line)
    /\ PathOf(line) \notin DOMAIN Found
    /\ head' = Spliced(idx, idx, <<>>)
    /\ UNCHANGED <<idx, macros, status>>

DefineRefused(line) ==
    /\ line.directive = "define"
    /\ line.words[1] \in DigitFirst
    /\ head' = Spliced(idx, idx, <<>>)
    /\ UNCHANGED <<idx, macros, status>>

\* The first word behind the name that has not been expanded to nothing.
Replacement(line) ==
    LET left == {i \in 2..Len(line.words) : line.words[i] # Empty}
    IN IF left = {} THEN Empty ELSE line.words[Min(left)]

\* Mutant: an earlier macro of the name stays in the list.
WithMacro_Twice(name, replacement) ==
    Append(macros, [macroName |-> name, replacement |-> replacement])

WithMacro(name, replacement) ==
    Append(WithoutMacro(<<name>>), [macroName |-> name, replacement |-> replacement])

\* A character that a name may not have removes the line at idx and moves idx
\* back (ll_remove(head, idx--)); then the macro is registered all the same.
Define(line) ==
    LET lost  == BadCharacters[line.words[1]]
        first == IF lost > idx THEN 0 ELSE idx - lost
    IN /\ line.directive = "define"
       /\ line.words[1] \notin DigitFirst
       /\ lost <= 1
       /\ macros' = WithMacro(line.words[1], Replacement(line))
       /\ head' = Spliced(first, idx, <<>>)
       /\ idx' = idx - lost
       /\ UNCHANGED status

\* The message about a second such character reads the line that the first has
\* freed: the address sanitizer that vras is built with stops it there.
DefineCrashes(line) ==
    /\ line.directive = "define"
    /\ line.words[1] \notin DigitFirst
    /\ BadCharacters[line.words[1]] > 1
    /\ status' = "crashed"
    /\ UNCHANGED <<head, idx, macros>>

\* #undef, #ifdef and #ifndef compare names with all of the line behind them.
Undef(line) ==
    /\ line.directive = "undef"
    /\ macros' = WithoutMacro(line.words)
    /\ head' = Spliced(idx, idx, <<>>)
    /\ UNCHANGED <<idx, status>>

-----------------------------------------------------------------------------
\* How many lines from..to have one of the directives.
Count(from, to, directives) ==
    Cardinality({i \in from..to : head[i + 1].directive \in directives})

\* Mutant: an #ifndef in a block is not counted.
Closes_IfdefOnly(i) ==
    /\ head[i + 1].directive = "endif"
    /\ Count(idx, i, {"endif"}) = Count(idx, i, {"ifdef"})

\* Line i is an #endif at which as many conditionals have ended as have begun
\* from the one at idx on.
Closes(i) ==
    /\ head[i + 1].directive = "endif"
    /\ Count(idx, i, {"endif"}) = Count(idx, i, {"ifdef", "ifndef"})

\* The conditional at idx: its own two lines go, and with removeCode all between
\* them.  Without an #endif the scan runs into ll_get(...)->data of no node.
Conditional(removeCode) ==
    LET closing == {i \in idx + 1..Len(head) - 1 : Closes(i)}
    IN IF closing = {}
       THEN status' = "crashed" /\ UNCHANGED <<head, idx, macros>>
       ELSE LET endif == Min(closing)
            IN /\ head' = Spliced(idx, endif,
                                  IF removeCode THEN <<>>
                                  ELSE SubSeq(head, idx + 2, endif))
               /\ UNCHANGED <<idx, macros, status>>

Ifdef(line) ==
    line.directive = "ifdef" /\ Conditional(~Defined(line.words))

Ifndef(line) ==
    line.directive = "ifndef" /\ Conditional(Defined(line.words))

Done ==
    /\ idx \notin 0..Len(head) - 1
    /\ status' = "done"
    /\ UNCHANGED <<head, idx, macros>>

-----------------------------------------------------------------------------
Init ==
    /\ source \in Sources
    /\ includes \in IncludePaths
    /\ head = Located(source, Input)
    /\ idx = 0
    /\ macros = <<>>
    /\ status = "running"

\* One round of the loop of preprocess.
Next ==
    /\ status = "running"
    /\ \/ Done
       \/ /\ idx \in 0..Len(head) - 1
          /\ \E line \in {expandMacros(head[idx + 1])} :
                \/ Keep(line)
                \/ Include(line)
                \/ IncludeMissing(line)
                \/ IncludeAsserts(line)
                \/ DefineRefused(line)
                \/ Define(line)
                \/ DefineCrashes(line)
                \/ Undef(line)
                \/ Ifdef(line)
                \/ Ifndef(line)
    /\ UNCHANGED <<source, includes>>

Spec == Init /\ [][Next]_vars /\ WF_vars(Next)

-----------------------------------------------------------------------------
Macro == [macroName : Word, replacement : Word]

\* The index never runs ahead of the list that shrinks and grows below it.
TypeOK ==
    /\ head \in Seq(LineType)
    /\ idx \in Int /\ idx <= Len(head)
    /\ macros \in Seq(Macro)
    /\ status \in {"running", "done", "crashed"}

\* No two macros have the same name: findMacro, #undef and #define, which all
\* take the first one, can never disagree about which definition holds.
NamesDistinct ==
    \A i, j \in DOMAIN macros :
        macros[i].macroName = macros[j].macroName => i = j

\* preprocess comes to an end, also on a file that includes itself behind a
\* guard.
Terminates == <>(status # "running")
=============================================================================
